---- MODULE Spec2Model ----
(***************************************************************************)
(* Snap & Cook: the recipe recommendation session (RecipeAgent) over the   *)
(* recipe catalog (recipeDatabase).                                        *)
(*                                                                         *)
(* Numbers.  The source computes in JavaScript numbers; the model computes *)
(* the same expressions exactly, in fixed point:                           *)
(*   - the three sub-scores (ingredientMatchScore, contextScore,           *)
(*     preferenceScore) in units of 1/One;                                 *)
(*   - userPreferences and freshness in tenths (0.2 is 2, 0.3 is 3, 1 is   *)
(*     10);                                                                *)
(*   - matchScore in units of 1/ScoreOne, ScoreOne = 1000 * One, so that   *)
(*     the weights 0.6/0.2/0.1, the freshness factor and the 0.8 of the    *)
(*     diversity pass are all exact integer operations.                    *)
(* IEEE-754 rounding is outside the model.                                 *)
(*                                                                         *)
(* Strings.  A string is an atom; Chars gives its characters, and          *)
(* toLowerCase / includes / the cook-time regular expressions work on the  *)
(* characters.                                                             *)
(***************************************************************************)
EXTENDS Integers, Sequences, FiniteSets, TLC

\* --------------------------------------------------------------------------
\* Strings
\* --------------------------------------------------------------------------

Chars ==
     "spaghetti" :> <<"s","p","a","g","h","e","t","t","i">> @@
     "eggs" :> <<"e","g","g","s">> @@
     "pancetta" :> <<"p","a","n","c","e","t","t","a">> @@
     "parmesan cheese" :> <<"p","a","r","m","e","s","a","n"," ","c","h","e","e","s","e">> @@
     "black pepper" :> <<"b","l","a","c","k"," ","p","e","p","p","e","r">> @@
     "salt" :> <<"s","a","l","t">> @@
     "bell peppers" :> <<"b","e","l","l"," ","p","e","p","p","e","r","s">> @@
     "broccoli" :> <<"b","r","o","c","c","o","l","i">> @@
     "carrots" :> <<"c","a","r","r","o","t","s">> @@
     "snow peas" :> <<"s","n","o","w"," ","p","e","a","s">> @@
     "mushrooms" :> <<"m","u","s","h","r","o","o","m","s">> @@
     "rice" :> <<"r","i","c","e">> @@
     "pasta" :> <<"p","a","s","t","a">> @@
     "Eggs" :> <<"E","g","g","s">> @@
     "Rice" :> <<"R","i","c","e">> @@
     "Ginger" :> <<"G","i","n","g","e","r">> @@
     "Garlic" :> <<"G","a","r","l","i","c">> @@
     "plate" :> <<"p","l","a","t","e">> @@
     "egg" :> <<"e","g","g">> @@
     "PASTA" :> <<"P","A","S","T","A">> @@
     "2 cups chopped rice" :> <<"2"," ","c","u","p","s"," ","c","h","o","p","p","e","d"," ","r","i","c","e">> @@
     "chopped diced tomato" :> <<"c","h","o","p","p","e","d"," ","d","i","c","e","d"," ","t","o","m","a","t","o">> @@
     "Tomato" :> <<"T","o","m","a","t","o">> @@
     "beans" :> <<"b","e","a","n","s">> @@
     "garlic" :> <<"g","a","r","l","i","c">> @@
     "ginger" :> <<"g","i","n","g","e","r">> @@
     "sesame oil" :> <<"s","e","s","a","m","e"," ","o","i","l">> @@
     "soy sauce" :> <<"s","o","y"," ","s","a","u","c","e">> @@
     "20 minutes" :> <<"2","0"," ","m","i","n","u","t","e","s">> @@
     "15 minutes" :> <<"1","5"," ","m","i","n","u","t","e","s">> @@
     "45 minutes" :> <<"4","5"," ","m","i","n","u","t","e","s">> @@
     "1 hour" :> <<"1"," ","h","o","u","r">> @@
     "25 min" :> <<"2","5"," ","m","i","n">> @@
     "1 hour 30 minutes" :> <<"1"," ","h","o","u","r"," ","3","0"," ","m","i","n","u","t","e","s">>

LowerCaseLetters ==
    <<"a","b","c","d","e","f","g","h","i","j","k","l","m",
      "n","o","p","q","r","s","t","u","v","w","x","y","z">>

UpperCaseLetters ==
    <<"A","B","C","D","E","F","G","H","I","J","K","L","M",
      "N","O","P","Q","R","S","T","U","V","W","X","Y","Z">>

\* the lower-case letter of each upper-case one, and the reverse
LowerOf ==
    [c \in {UpperCaseLetters[i] : i \in DOMAIN UpperCaseLetters} |->
        LowerCaseLetters[CHOOSE i \in DOMAIN UpperCaseLetters :
                             UpperCaseLetters[i] = c]]

UpperOf ==
    [c \in {LowerCaseLetters[i] : i \in DOMAIN LowerCaseLetters} |->
        UpperCaseLetters[CHOOSE i \in DOMAIN LowerCaseLetters :
                             LowerCaseLetters[i] = c]]

\* String.prototype.toLowerCase, on the characters of a string.
LowerChar(c) == IF c \in DOMAIN LowerOf THEN LowerOf[c] ELSE c

\* String.prototype.toUpperCase on one character
UpperChar(c) == IF c \in DOMAIN UpperOf THEN UpperOf[c] ELSE c

toLowerCase(cs) == [i \in DOMAIN cs |-> LowerChar(cs[i])]

\* String.prototype.includes: b occurs in a as a contiguous run of characters.
includes(a, b) ==
    \E i \in 0..(Len(a) - Len(b)) : SubSeq(a, i + 1, i + Len(b)) = b

\* Array.prototype.includes / Set.prototype.has on a list.
Elems(s) == {s[i] : i \in DOMAIN s}

\* --------------------------------------------------------------------------
\* Fixed point
\* --------------------------------------------------------------------------

One == 60 * 100

ScoreOne == 1000 * One

\* --------------------------------------------------------------------------
\* recipeDatabase: the catalog
\* --------------------------------------------------------------------------

\* An optional array (dietaryInfo?, dietaryRestrictions?, the ingredients argument).
Some(items) == [defined |-> TRUE, items |-> items]

None == [defined |-> FALSE, items |-> <<>>]

\* The two entries of RECIPE_DATABASE, with the fields the recommendation
\* engine reads.
Recipe1 ==
    [id |-> "1", cuisineType |-> "Italian", cookTime |-> "20 minutes",
     ingredients |-> <<"spaghetti", "eggs", "pancetta", "parmesan cheese",
                       "black pepper", "salt">>,
     dietaryInfo |-> Some(<<>>)]

Recipe2 ==
    [id |-> "2", cuisineType |-> "Asian", cookTime |-> "15 minutes",
     ingredients |-> <<"bell peppers", "broccoli", "carrots", "snow peas",
                       "mushrooms", "garlic", "ginger", "soy sauce",
                       "sesame oil", "rice">>,
     dietaryInfo |-> Some(<<"Vegetarian", "Vegan">>)]

\* "Additional recipes would go here": further catalog entries of the same
\* shape, as a catalog collaborator may supply them.
Recipe3 ==
    [id |-> "3", cuisineType |-> "Italian", cookTime |-> "45 minutes",
     ingredients |-> <<"pasta", "eggs", "garlic">>,
     dietaryInfo |-> Some(<<"Vegetarian">>)]

Recipe4 ==
    [id |-> "4", cuisineType |-> "Italian", cookTime |-> "1 hour",
     ingredients |-> <<"rice", "salt">>,
     dietaryInfo |-> Some(<<"Vegetarian", "Gluten-Free">>)]

Recipe5 ==
    [id |-> "5", cuisineType |-> "Mexican", cookTime |-> "25 min",
     ingredients |-> <<"rice", "beans">>,
     dietaryInfo |-> None]

Recipe6 ==
    [id |-> "6", cuisineType |-> "Italian", cookTime |-> "1 hour 30 minutes",
     ingredients |-> <<"eggs", "rice">>,
     dietaryInfo |-> Some(<<>>)]

\* An entry of partially malformed external data: no `ingredients` field.
Recipe7 ==
    [id |-> "7", cuisineType |-> "Asian", cookTime |-> "15 minutes",
     dietaryInfo |-> Some(<<>>)]

RECIPE_DATABASE == <<Recipe1, Recipe2>>

\* The shipped database with the malformed entry in it.
LooseDatabase == <<Recipe1, Recipe7, Recipe2>>

\* The catalogs a session may run over: the shipped database, and a larger
\* one that extends it.
Catalogs ==
    { RECIPE_DATABASE,
      <<Recipe1, Recipe2, Recipe3, Recipe4, Recipe5, Recipe6>> }

AllRecipeData == {Recipe1, Recipe2, Recipe3, Recipe4, Recipe5, Recipe6}

\* A RecipeMatch refers to its recipe by id (the identity of a RecipeRecord).
RecipeById == [id \in {r.id : r \in AllRecipeData} |->
                  CHOOSE r \in AllRecipeData : r.id = id]

RecipeOf(id) == RecipeById[id]

\* getAllRecipes(): the database entries in order, each spread into a Recipe
\* with empty matchedIngredients and matchScore 0.  `db` is the database the
\* session runs over.
getAllRecipes(db) ==
    [i \in DOMAIN db |->
        [matchedIngredients |-> <<>>, matchScore |-> 0] @@ db[i]]

\* --------------------------------------------------------------------------
\* Inputs
\* --------------------------------------------------------------------------

\* a missing value of a string-valued option
undefined == "undefined"

\* JavaScript truthiness of a string-valued option
Truthy(v) == v # undefined /\ v # ""

\* The ingredient lists a caller passes (ProcessedIngredient names are
\* title-cased by the ingredient agent).
IngredientLists ==
    { <<>>, <<"Eggs">>, <<"Eggs", "Ginger">>, <<"Eggs", "Rice">> }

\* The ingredient lists the scorer is exercised with on its own.
ScoringLists ==
    { <<>>, <<"Eggs">>, <<"Eggs", "Rice", "Ginger", "Garlic">> }

\* The `ingredients` argument: a list, or missing.
IngredientArgs == {Some(l) : l \in IngredientLists} \cup {None}

NoContext ==
    [defined |-> FALSE, timeOfDay |-> undefined, mealType |-> undefined,
     dietaryRestrictions |-> None, cookingTime |-> undefined]

MorningContext ==
    [defined |-> TRUE, timeOfDay |-> "morning", mealType |-> "dinner",
     dietaryRestrictions |-> Some(<<"Vegetarian", "Gluten-Free">>),
     cookingTime |-> "quick"]

Interactions == {"liked", "disliked", "viewed"}

\* --------------------------------------------------------------------------
\* RecipeAgent.estimateCookingTime
\* --------------------------------------------------------------------------

IsDigit(c) == c \in {"0", "1", "2", "3", "4", "5", "6", "7", "8", "9"}

DigitValue(c) ==
    CASE c = "0" -> 0 [] c = "1" -> 1 [] c = "2" -> 2 [] c = "3" -> 3
      [] c = "4" -> 4 [] c = "5" -> 5 [] c = "6" -> 6 [] c = "7" -> 7
      [] c = "8" -> 8 [] c = "9" -> 9

RECURSIVE parseInt(_)
parseInt(ds) ==
    IF ds = <<>> THEN 0
    ELSE 10 * parseInt(SubSeq(ds, 1, Len(ds) - 1)) + DigitValue(ds[Len(ds)])

\* The end of the longest run of characters from position i on that satisfy
\* the class (digits for \d+, blanks for \s*); i - 1 when there is none.
RECURSIVE RunEnd(_, _, _)
RunEnd(cs, i, digits) ==
    IF i <= Len(cs) /\ (IF digits THEN IsDigit(cs[i]) ELSE cs[i] = " ")
    THEN RunEnd(cs, i + 1, digits)
    ELSE i - 1

\* word occurs in cs at position k, ignoring case
WordAt(cs, k, word) ==
    /\ k + Len(word) - 1 <= Len(cs)
    /\ toLowerCase(SubSeq(cs, k, k + Len(word) - 1)) = word

\* String.prototype.match(/(\d+)\s*word/i): the capture group of the leftmost
\* match from position i on, the digits and the blanks taken greedily (a
\* shorter run is followed by a digit or a blank, never by the word); -1
\* stands for null.
RECURSIVE RegexCapture(_, _, _)
RegexCapture(cs, i, word) ==
    IF i > Len(cs) THEN -1
    ELSE IF /\ IsDigit(cs[i])
            /\ WordAt(cs, RunEnd(cs, RunEnd(cs, i, TRUE) + 1, FALSE) + 1, word)
    THEN parseInt(SubSeq(cs, i, RunEnd(cs, i, TRUE)))
    ELSE RegexCapture(cs, i + 1, word)

\* minutesMatch ? parseInt(minutesMatch[1]) : 0, and the like for hours
MinutesOf(capture, factor) == IF capture >= 0 THEN capture * factor ELSE 0

\* totalMinutes || 30
OrDefault(totalMinutes) == IF totalMinutes # 0 THEN totalMinutes ELSE 30

estimateCookingTime(timeString) ==
    OrDefault(
        MinutesOf(RegexCapture(Chars[timeString], 1,
                               <<"m","i","n","u","t","e","s">>), 1)
        + MinutesOf(RegexCapture(Chars[timeString], 1,
                                 <<"h","o","u","r">>), 60))

\* computed once per distinct cookTime
CookingTimeOf ==
    [id \in DOMAIN RecipeById |-> estimateCookingTime(RecipeById[id].cookTime)]


\* --------------------------------------------------------------------------
\* IngredientAgent.normalizeIngredientName
\* --------------------------------------------------------------------------

\* \w
IsWordChar(c) ==
    \/ IsDigit(c)
    \/ c = "_"
    \/ \E i \in DOMAIN LowerCaseLetters :
           c = LowerCaseLetters[i] \/ c = UpperCaseLetters[i]

\* \b between positions i - 1 and i of cs
WordBoundary(cs, i) ==
    LET before == i > 1 /\ i - 1 <= Len(cs) /\ IsWordChar(cs[i - 1])
        after  == i >= 1 /\ i <= Len(cs) /\ IsWordChar(cs[i])
    IN  before # after

\* the unit alternatives of the quantity pattern, in order; `plural` marks
\* an optional trailing s
QuantityUnits ==
    <<[word |-> <<"c","u","p">>, plural |-> TRUE],
      [word |-> <<"l","b">>, plural |-> TRUE],
      [word |-> <<"o","u","n","c","e">>, plural |-> TRUE],
      [word |-> <<"o","z">>, plural |-> FALSE],
      [word |-> <<"t","b","s","p">>, plural |-> FALSE],
      [word |-> <<"t","s","p">>, plural |-> FALSE],
      [word |-> <<"t","a","b","l","e","s","p","o","o","n">>, plural |-> TRUE],
      [word |-> <<"t","e","a","s","p","o","o","n">>, plural |-> TRUE],
      [word |-> <<"p","o","u","n","d">>, plural |-> TRUE],
      [word |-> <<"g","r","a","m">>, plural |-> TRUE],
      [word |-> <<"k","i","l","o">>, plural |-> TRUE],
      [word |-> <<"k","g">>, plural |-> FALSE],
      [word |-> <<"m","l">>, plural |-> FALSE],
      [word |-> <<"l","i","t","e","r">>, plural |-> TRUE],
      [word |-> <<"l">>, plural |-> FALSE]>>

\* where a unit word matching at position k ends, its optional s included
WordEnd(cs, k, unit) ==
    IF /\ unit.plural
       /\ k + Len(unit.word) <= Len(cs)
       /\ LowerChar(cs[k + Len(unit.word)]) = "s"
    THEN k + Len(unit.word)
    ELSE k + Len(unit.word) - 1

\* where the first unit alternative that matches at position k ends; 0 when
\* none matches
RECURSIVE UnitEnd(_, _, _)
UnitEnd(cs, k, n) ==
    IF n > Len(QuantityUnits) THEN 0
    ELSE IF WordAt(cs, k, QuantityUnits[n].word)
    THEN WordEnd(cs, k, QuantityUnits[n])
    ELSE UnitEnd(cs, k, n + 1)

\* \d+(\.\d+)? at the start of cs: the end of the number
NumberEnd(cs) ==
    LET digitsEnd == RunEnd(cs, 1, TRUE)
    IN  IF /\ digitsEnd + 2 <= Len(cs)
           /\ cs[digitsEnd + 1] = "."
           /\ IsDigit(cs[digitsEnd + 2])
        THEN RunEnd(cs, digitsEnd + 2, TRUE)
        ELSE digitsEnd

\* \s*(of)?\s* after the unit: the end of what the pattern matches
QuantityEnd(cs, unitEnd) ==
    LET ofStart == RunEnd(cs, unitEnd + 1, FALSE) + 1
    IN  IF WordAt(cs, ofStart, <<"o", "f">>)
        THEN RunEnd(cs, ofStart + 2, FALSE)
        ELSE ofStart - 1

\* name.replace(/^\d+(\.\d+)?\s*(cups?|...|l)\s*(of)?\s*/i, ''): everything
\* after the unit may match the empty string, so the first unit alternative
\* that matches after the number and the blanks decides; giving back the
\* fraction or a blank leaves a "." or a blank where the unit must start.
StripQuantity(cs) ==
    IF cs = <<>> \/ ~IsDigit(cs[1]) THEN cs
    ELSE LET unitEnd == UnitEnd(cs, RunEnd(cs, NumberEnd(cs) + 1, FALSE) + 1,
                                1)
         IN  IF unitEnd = 0 THEN cs
             ELSE SubSeq(cs, QuantityEnd(cs, unitEnd) + 1, Len(cs))

PreparationStates ==
    <<<<"c","h","o","p","p","e","d">>, <<"d","i","c","e","d">>,
      <<"s","l","i","c","e","d">>, <<"m","i","n","c","e","d">>,
      <<"g","r","a","t","e","d">>, <<"g","r","o","u","n","d">>,
      <<"s","h","r","e","d","d","e","d">>, <<"c","r","u","s","h","e","d">>,
      <<"p","e","e","l","e","d">>>>

\* a preparation-state word stands at position i, between word boundaries
StateWordAt(cs, i) ==
    \E n \in DOMAIN PreparationStates :
        /\ WordAt(cs, i, PreparationStates[n])
        /\ WordBoundary(cs, i)
        /\ WordBoundary(cs, i + Len(PreparationStates[n]))

\* normalized.replace(/\b(chopped|...|peeled)\b/i, ''): the pattern has no g
\* flag, so only the leftmost occurrence is removed.
StripState(cs) ==
    IF \E i \in DOMAIN cs : StateWordAt(cs, i)
    THEN LET i == CHOOSE i \in DOMAIN cs :
                      /\ StateWordAt(cs, i)
                      /\ \A j \in 1..(i - 1) : ~StateWordAt(cs, j)
             n == CHOOSE n \in DOMAIN PreparationStates :
                      /\ WordAt(cs, i, PreparationStates[n])
                      /\ WordBoundary(cs, i + Len(PreparationStates[n]))
         IN  SubSeq(cs, 1, i - 1)
                 \o SubSeq(cs, i + Len(PreparationStates[n]), Len(cs))
    ELSE cs

\* String.prototype.trim
trim(cs) ==
    IF \A i \in DOMAIN cs : cs[i] = " " THEN <<>>
    ELSE LET first == CHOOSE i \in DOMAIN cs :
                          cs[i] # " " /\ \A j \in 1..(i - 1) : cs[j] = " "
             last == CHOOSE i \in DOMAIN cs :
                         cs[i] # " " /\ \A j \in (i + 1)..Len(cs) : cs[j] = " "
         IN  SubSeq(cs, first, last)

\* normalized.replace(/\b\w/g, match => match.toUpperCase())
TitleCase(cs) ==
    [i \in DOMAIN cs |->
        IF IsWordChar(cs[i]) /\ WordBoundary(cs, i)
        THEN UpperChar(cs[i]) ELSE cs[i]]

normalizeIngredientName(name) ==
    TitleCase(trim(StripState(StripQuantity(name))))

\* An item as vision detection reports it; confidence is in hundredths.
Item(name, confidence) == [name |-> name, confidence |-> confidence]

\* what vision detection hands to processDetectedIngredients
Detections ==
    {<<>>,
     <<Item(Chars["pasta"], 90), Item(Chars["PASTA"], 50),
       Item(Chars["plate"], 80)>>,
     <<Item(Chars["2 cups chopped rice"], 80), Item(Chars["egg"], 70)>>,
     <<Item(Chars["chopped diced tomato"], 90)>>}

\* the name lists a user adds by hand
ManualLists ==
    {<<Chars["rice"]>>, <<Chars["Tomato"], Chars["Tomato"]>>}

\* the name lists a user removes
RemovalLists == {<<Chars["rice"]>>}

\* the names the model passes to the agent
RawNames ==
    UNION {{items[i].name : i \in DOMAIN items} : items \in Detections}
        \cup UNION {Elems(names) : names \in ManualLists \cup RemovalLists}

\* normalizeIngredientName, tabulated over the names the model passes
NormalizedName == [name \in RawNames |-> normalizeIngredientName(name)]

\* --------------------------------------------------------------------------
\* IngredientAgent: filterIngredients, enrichIngredients,
\* analyzeIngredientContext
\* --------------------------------------------------------------------------

\* In an item of the agent's list, state is `undefined` and freshness
\* NoFreshness where the object has no such key.

NoFreshness == [defined |-> FALSE, tenths |-> 0]

AssumedFresh == [defined |-> TRUE, tenths |-> 9]

NonFoodKeywords ==
    <<<<"t","a","b","l","e">>, <<"c","h","a","i","r">>,
      <<"p","l","a","t","e">>, <<"s","p","o","o","n">>, <<"f","o","r","k">>,
      <<"k","n","i","f","e">>, <<"c","u","p">>, <<"g","l","a","s","s">>,
      <<"b","o","w","l">>, <<"n","a","p","k","i","n">>,
      <<"c","o","n","t","a","i","n","e","r">>, <<"p","a","c","k","a","g","e">>,
      <<"w","r","a","p","p","e","r">>, <<"b","o","x">>, <<"j","a","r">>,
      <<"c","a","n">>, <<"b","o","t","t","l","e">>>>

\* nonFoodKeywords.some(keyword => normalizedName.includes(keyword))
IsNonFood(item) ==
    LET normalizedName == toLowerCase(item.name)
    IN  \E k \in DOMAIN NonFoodKeywords :
            includes(normalizedName, NonFoodKeywords[k])

\* items.filter(...): the first stage of filterIngredients
DropNonFood(items) == SelectSeq(items, LAMBDA item : ~IsNonFood(item))

\* the loop over foodItems: an item is pushed unless an earlier one has the
\* same lower-cased name
RECURSIVE UniqueItems(_)
UniqueItems(items) ==
    IF items = <<>> THEN <<>>
    ELSE LET front == UniqueItems(SubSeq(items, 1, Len(items) - 1))
             item == items[Len(items)]
         IN  IF \E i \in DOMAIN front :
                    toLowerCase(front[i].name) = toLowerCase(item.name)
             THEN front
             ELSE Append(front, item)

\* A filter that keeps duplicates (for comparison).
DuplicatesKept(items) == DropNonFood(items)

filterIngredients(items) == UniqueItems(DropNonFood(items))

\* the first entry of stateMatches whose pattern occurs in the name
StateOf(name) ==
    IF \E n \in DOMAIN PreparationStates :
           includes(toLowerCase(name), PreparationStates[n])
    THEN PreparationStates[
             CHOOSE n \in DOMAIN PreparationStates :
                 /\ includes(toLowerCase(name), PreparationStates[n])
                 /\ \A m \in 1..(n - 1) :
                        ~includes(toLowerCase(name), PreparationStates[m])]
    ELSE undefined

CommonVegetables ==
    <<<<"t","o","m","a","t","o">>, <<"l","e","t","t","u","c","e">>,
      <<"c","u","c","u","m","b","e","r">>, <<"p","e","p","p","e","r">>,
      <<"c","a","r","r","o","t">>>>

FreshnessOf(name) ==
    IF \E n \in DOMAIN CommonVegetables :
           includes(toLowerCase(name), CommonVegetables[n])
    THEN AssumedFresh ELSE NoFreshness

enrichIngredients(items) ==
    [i \in DOMAIN items |->
        [name |-> items[i].name, confidence |-> items[i].confidence,
         state |-> StateOf(items[i].name),
         freshness |-> FreshnessOf(items[i].name)]]

\* { name, confidence: 1 }
ManualIngredient(name) ==
    [name |-> name, confidence |-> 100, state |-> undefined,
     freshness |-> NoFreshness]

CuisineSignatures ==
    <<[key |-> "Italian",
       words |->
         <<<<"p","a","s","t","a">>, <<"t","o","m","a","t","o">>,
           <<"b","a","s","i","l">>, <<"o","r","e","g","a","n","o">>,
           <<"p","a","r","m","e","s","a","n">>,
           <<"o","l","i","v","e"," ","o","i","l">>,
           <<"g","a","r","l","i","c">>,
           <<"m","o","z","z","a","r","e","l","l","a">>>>],
      [key |-> "Mexican",
       words |->
         <<<<"t","o","r","t","i","l","l","a">>,
           <<"a","v","o","c","a","d","o">>,
           <<"c","i","l","a","n","t","r","o">>, <<"l","i","m","e">>,
           <<"j","a","l","a","p","e","ñ","o">>, <<"c","u","m","i","n">>,
           <<"c","h","i","l","i">>, <<"b","e","a","n","s">>,
           <<"c","o","r","n">>>>],
      [key |-> "Asian",
       words |->
         <<<<"s","o","y"," ","s","a","u","c","e">>,
           <<"g","i","n","g","e","r">>,
           <<"s","e","s","a","m","e"," ","o","i","l">>, <<"r","i","c","e">>,
           <<"t","o","f","u">>,
           <<"g","r","e","e","n"," ","o","n","i","o","n">>,
           <<"b","o","k"," ","c","h","o","y">>,
           <<"n","o","o","d","l","e","s">>>>],
      [key |-> "Indian",
       words |->
         <<<<"c","u","r","r","y">>, <<"c","u","m","i","n">>,
           <<"c","o","r","i","a","n","d","e","r">>,
           <<"t","u","r","m","e","r","i","c">>,
           <<"g","a","r","a","m"," ","m","a","s","a","l","a">>,
           <<"c","h","i","c","k","p","e","a">>, <<"l","e","n","t","i","l">>,
           <<"c","h","i","l","i">>>>],
      [key |-> "Mediterranean",
       words |->
         <<<<"o","l","i","v","e"," ","o","i","l">>, <<"f","e","t","a">>,
           <<"c","u","c","u","m","b","e","r">>, <<"y","o","g","u","r","t">>,
           <<"e","g","g","p","l","a","n","t">>, <<"h","u","m","m","u","s">>,
           <<"t","a","h","i","n","i">>, <<"m","i","n","t">>>>],
      [key |-> "American",
       words |->
         <<<<"b","e","e","f">>, <<"p","o","t","a","t","o">>,
           <<"c","o","r","n">>, <<"b","u","t","t","e","r">>,
           <<"b","r","e","a","d">>, <<"c","h","e","e","s","e">>,
           <<"m","a","y","o">>, <<"k","e","t","c","h","u","p">>,
           <<"m","u","s","t","a","r","d">>>>],
      [key |-> "French",
       words |->
         <<<<"b","u","t","t","e","r">>, <<"c","r","e","a","m">>,
           <<"w","i","n","e">>, <<"t","h","y","m","e">>,
           <<"r","o","s","e","m","a","r","y">>,
           <<"s","h","a","l","l","o","t">>,
           <<"t","a","r","r","a","g","o","n">>, <<"d","i","j","o","n">>>>]>>

TechniqueSuggestions ==
    <<[key |-> "Baking",
       words |->
         <<<<"f","l","o","u","r">>, <<"s","u","g","a","r">>, <<"e","g","g">>,
           <<"b","u","t","t","e","r">>, <<"v","a","n","i","l","l","a">>,
           <<"b","a","k","i","n","g"," ","p","o","w","d","e","r">>,
           <<"b","a","k","i","n","g"," ","s","o","d","a">>>>],
      [key |-> "Roasting",
       words |->
         <<<<"p","o","t","a","t","o">>, <<"b","e","e","f">>,
           <<"c","h","i","c","k","e","n">>, <<"c","a","r","r","o","t">>,
           <<"o","n","i","o","n">>, <<"g","a","r","l","i","c">>,
           <<"t","h","y","m","e">>, <<"r","o","s","e","m","a","r","y">>>>],
      [key |-> "Stir-frying",
       words |->
         <<<<"s","o","y"," ","s","a","u","c","e">>,
           <<"g","i","n","g","e","r">>, <<"g","a","r","l","i","c">>,
           <<"s","e","s","a","m","e"," ","o","i","l">>,
           <<"g","r","e","e","n"," ","o","n","i","o","n">>,
           <<"b","o","k"," ","c","h","o","y">>>>],
      [key |-> "Sautéing",
       words |->
         <<<<"o","l","i","v","e"," ","o","i","l">>,
           <<"b","u","t","t","e","r">>, <<"g","a","r","l","i","c">>,
           <<"o","n","i","o","n">>, <<"m","u","s","h","r","o","o","m">>,
           <<"b","e","l","l"," ","p","e","p","p","e","r">>>>],
      [key |-> "Boiling",
       words |->
         <<<<"p","a","s","t","a">>, <<"p","o","t","a","t","o">>,
           <<"r","i","c","e">>, <<"b","e","a","n","s">>,
           <<"l","e","n","t","i","l">>, <<"e","g","g">>>>],
      [key |-> "Grilling",
       words |->
         <<<<"b","e","e","f">>, <<"c","h","i","c","k","e","n">>,
           <<"l","a","m","b">>, <<"f","i","s","h">>,
           <<"p","e","p","p","e","r">>, <<"z","u","c","c","h","i","n","i">>,
           <<"e","g","g","p","l","a","n","t">>>>]>>

BreakfastIngredients ==
    <<<<"e","g","g">>, <<"b","a","c","o","n">>,
      <<"s","a","u","s","a","g","e">>, <<"t","o","a","s","t">>,
      <<"c","e","r","e","a","l">>, <<"y","o","g","u","r","t">>,
      <<"p","a","n","c","a","k","e">>, <<"w","a","f","f","l","e">>,
      <<"o","a","t">>>>

DinnerIngredients ==
    <<<<"b","e","e","f">>, <<"c","h","i","c","k","e","n">>,
      <<"p","o","r","k">>, <<"f","i","s","h">>, <<"l","a","m","b">>,
      <<"p","a","s","t","a">>, <<"r","i","c","e">>,
      <<"p","o","t","a","t","o">>>>

\* every word of the analysis tables
SignatureWords ==
    UNION {Elems(CuisineSignatures[k].words) : k \in DOMAIN CuisineSignatures}
        \cup UNION {Elems(TechniqueSuggestions[k].words) :
                        k \in DOMAIN TechniqueSuggestions}
        \cup Elems(BreakfastIngredients) \cup Elems(DinnerIngredients)

\* names of stored ingredients that the analysis is exercised with on its
\* own: Soy Sauce, Ginger, Rice, Sesame Oil, Egg, Pasta, Oil, Garlic
AnalysisNames ==
    <<<<"S","o","y"," ","S","a","u","c","e">>,
      <<"G","i","n","g","e","r">>,
      <<"R","i","c","e">>,
      <<"S","e","s","a","m","e"," ","O","i","l">>,
      <<"E","g","g">>,
      <<"P","a","s","t","a">>,
      <<"O","i","l">>,
      <<"G","a","r","l","i","c">>>>

\* ing.includes(sig) || sig.includes(ing), tabulated over the lower-cased
\* names an ingredient of the model can carry
Touching ==
    [ing \in {toLowerCase(NormalizedName[name]) : name \in RawNames}
                \cup {toLowerCase(AnalysisNames[i]) :
                         i \in DOMAIN AnalysisNames} |->
        [sig \in SignatureWords |-> includes(ing, sig) \/ includes(sig, ing)]]

\* ingredientNames.some(ing => ing.includes(sig) || sig.includes(ing))
Touches(ingredientNames, sig) ==
    \E i \in DOMAIN ingredientNames : Touching[ingredientNames[i]][sig]

\* A count of the signatures that an ingredient name contains, without the
\* reverse containment (for comparison).
ContainedCount(signatures, ingredientNames) ==
    Cardinality({k \in DOMAIN signatures :
                    \E i \in DOMAIN ingredientNames :
                        includes(ingredientNames[i], signatures[k])})

\* signatures.filter(sig => ...).length
MatchCount(signatures, ingredientNames) ==
    Cardinality({k \in DOMAIN signatures :
                    Touches(ingredientNames, signatures[k])})

\* the keys of a table whose entries match at least `least` times, in the
\* table's order
RECURSIVE MatchingKeys(_, _, _)
MatchingKeys(entries, ingredientNames, least) ==
    IF entries = <<>> THEN <<>>
    ELSE LET rest == MatchingKeys(Tail(entries), ingredientNames, least)
         IN  IF MatchCount(Head(entries).words, ingredientNames) >= least
             THEN <<Head(entries).key>> \o rest
             ELSE rest

MealType(ingredientNames) ==
    LET breakfastMatches == MatchCount(BreakfastIngredients, ingredientNames)
        dinnerMatches == MatchCount(DinnerIngredients, ingredientNames)
    IN  IF breakfastMatches > dinnerMatches THEN "breakfast"
        ELSE IF dinnerMatches > 0 THEN "dinner"
        ELSE undefined

\* the hours of the clock the model reads
Hours == {9, 20}

getTimeOfDay(hours) ==
    IF hours >= 5 /\ hours < 12 THEN "morning"
    ELSE IF hours >= 12 /\ hours < 17 THEN "afternoon"
    ELSE "evening"

IngredientNames(ingredients) ==
    [i \in DOMAIN ingredients |-> toLowerCase(ingredients[i].name)]

\* the context analyzeIngredientContext() stores for a list of ingredients
analyzeIngredientContext(ingredients, hours) ==
    LET ingredientNames == IngredientNames(ingredients)
    IN  [possibleCuisines |->
             MatchingKeys(CuisineSignatures, ingredientNames, 1),
         cookingTechniques |->
             MatchingKeys(TechniqueSuggestions, ingredientNames, 2),
         mealType |-> MealType(ingredientNames),
         timeOfDay |-> getTimeOfDay(hours)]

\* { possibleCuisines: [], cookingTechniques: [] }
EmptyContext ==
    [possibleCuisines |-> <<>>, cookingTechniques |-> <<>>,
     mealType |-> undefined, timeOfDay |-> undefined]

\* --------------------------------------------------------------------------
\* RecipeAgent.scoreRecipes
\* --------------------------------------------------------------------------

\* Array.from(new Set(list)): first occurrences, in order.
RECURSIVE Dedupe(_)
Dedupe(list) ==
    IF list = <<>> THEN <<>>
    ELSE LET init == SubSeq(list, 1, Len(list) - 1)
             last == list[Len(list)]
         IN  IF last \in Elems(init) THEN Dedupe(init)
             ELSE Append(Dedupe(init), last)

\* The recipe ingredients that some user ingredient matches: substring
\* containment in either direction, ignoring case.
MatchedIngredients(recipe, ingredients) ==
    LET normalizedUserIngredients ==
            [i \in DOMAIN ingredients |-> toLowerCase(Chars[ingredients[i]])]
        Matched(recipeIngredient) ==
            LET normalizedRecipeIng == toLowerCase(Chars[recipeIngredient])
            IN  \E i \in DOMAIN ingredients :
                    \/ includes(normalizedRecipeIng, normalizedUserIngredients[i])
                    \/ includes(normalizedUserIngredients[i], normalizedRecipeIng)
    IN  SelectSeq(recipe.ingredients, Matched)

\* computed once per recipe and ingredient list
MatchedOf ==
    [id \in DOMAIN RecipeById |->
        [l \in IngredientLists \cup ScoringLists |->
            MatchedIngredients(RecipeById[id], l)]]

\* matchedIngredients.length / recipe.ingredients.length, in units of 1/One
IngredientMatchScore(matched, total) == (matched * One) \div total

\* The context-based adjustment, in units of 1/One.
ContextScore(recipe, context) ==
    IF ~context.defined THEN 0
    ELSE
      LET estimatedTime == CookingTimeOf[recipe.id]
          mealPart == IF Truthy(context.mealType) THEN One \div 10 ELSE 0
          timePart ==
              IF /\ Truthy(context.cookingTime)
                 /\ \/ context.cookingTime = "quick" /\ estimatedTime <= 20
                    \/ context.cookingTime = "medium" /\ estimatedTime > 20
                                                      /\ estimatedTime <= 40
                    \/ context.cookingTime = "long" /\ estimatedTime > 40
              THEN (15 * One) \div 100 ELSE 0
          matchingRestrictions ==
              SelectSeq(context.dietaryRestrictions.items,
                        LAMBDA restriction :
                            restriction \in Elems(recipe.dietaryInfo.items))
          dietPart ==
              IF /\ context.dietaryRestrictions.defined
                 /\ recipe.dietaryInfo.defined
                 /\ Len(matchingRestrictions) > 0
              THEN (2 * One * Len(matchingRestrictions))
                      \div (10 * Len(context.dietaryRestrictions.items))
              ELSE 0
      IN  mealPart + timePart + dietPart

\* Map.prototype.get(key) || 0 on userPreferences (values in tenths)
PreferenceOf(prefs, cuisineType) ==
    IF cuisineType \in DOMAIN prefs THEN prefs[cuisineType] ELSE 0

\* The freshness factor, in tenths: 0.3 for a recipe seen recently, else 1.
\* A scorer without the freshness penalty (for comparison).
Unpenalized(seen, id) == 10

Freshness(seen, id) == IF id \in seen THEN 3 ELSE 10

\* A score that weighs the three factors alike (for comparison).
UnweightedScore(ingredientMatchScore, contextScore, preferenceScore, freshness) ==
    (ingredientMatchScore + contextScore + preferenceScore) * freshness * 10

\* (ingredientMatchScore * 0.6 + contextScore * 0.2 + preferenceScore * 0.1)
\*     * freshness, in units of 1/ScoreOne
FinalScore(ingredientMatchScore, contextScore, preferenceScore, freshness) ==
    (ingredientMatchScore * 6 + contextScore * 2 + preferenceScore * 1)
        * freshness * 10

\* The RecipeMatch of one recipe.
ScoreOf(recipe, ingredients, context, seen, prefs) ==
    LET matchedIngredients == MatchedOf[recipe.id][ingredients]
        freshness == Freshness(seen, recipe.id)
    IN  [recipe |-> recipe.id,
         matchedIngredients |-> Dedupe(matchedIngredients),
         matchScore |->
             FinalScore(
                 IngredientMatchScore(Len(matchedIngredients),
                                      Len(recipe.ingredients)),
                 ContextScore(recipe, context),
                 (PreferenceOf(prefs, recipe.cuisineType) * One) \div 10,
                 freshness),
         freshness |-> freshness]

\* A scorer that keeps every recipe, and one that keeps matching recipes
\* only (for comparison).
EveryRecipe(recipe, ingredients) == TRUE

MatchedOnly(recipe, ingredients) ==
    Len(MatchedOf[recipe.id][ingredients]) > 0

\* "Only include recipes with some ingredient match"

Included(recipe, ingredients) ==
    Len(MatchedOf[recipe.id][ingredients]) > 0 \/ Len(ingredients) = 0

\* Array.prototype.sort((a, b) => b.matchScore - a.matchScore): stable,
\* descending by matchScore.
RECURSIVE InsertSorted(_, _)
InsertSorted(sorted, m) ==
    IF sorted = <<>> THEN <<m>>
    ELSE IF sorted[Len(sorted)].matchScore >= m.matchScore
         THEN Append(sorted, m)
         ELSE Append(InsertSorted(SubSeq(sorted, 1, Len(sorted) - 1), m),
                     sorted[Len(sorted)])

RECURSIVE SortByScore(_)
SortByScore(list) ==
    IF list = <<>> THEN <<>>
    ELSE InsertSorted(SortByScore(SubSeq(list, 1, Len(list) - 1)),
                      list[Len(list)])

\* A scorer that does not cut the list (for comparison).
WholeList(list) == list

\* .slice(0, 5)
TopResults(list) == SubSeq(list, 1, IF Len(list) < 5 THEN Len(list) ELSE 5)

RECURSIVE ScoreResults(_, _, _, _, _)
ScoreResults(recipes, ingredients, context, seen, prefs) ==
    IF recipes = <<>> THEN <<>>
    ELSE LET init == ScoreResults(SubSeq(recipes, 1, Len(recipes) - 1),
                                  ingredients, context, seen, prefs)
             recipe == recipes[Len(recipes)]
         IN  IF Included(recipe, ingredients)
             THEN Append(init, ScoreOf(recipe, ingredients, context, seen, prefs))
             ELSE init

\* recipe.ingredients.forEach(...) throws a TypeError on an entry without
\* `ingredients`; nothing catches it.
ScoringThrows(recipes) ==
    \E i \in DOMAIN recipes : "ingredients" \notin DOMAIN recipes[i]

scoreRecipes(recipes, ingredients, context, seen, prefs) ==
    TopResults(SortByScore(
        ScoreResults(recipes, ingredients, context, seen, prefs)))

\* --------------------------------------------------------------------------
\* RecipeAgent.applyDiversity
\* --------------------------------------------------------------------------

CuisineOf(match) == RecipeOf(match.recipe).cuisineType

\* Object.keys(calculateDistribution(recipes, 'cuisineType')): the cuisines of
\* the list, in order of first appearance.
DistributionKeys(recipes) ==
    Dedupe([i \in DOMAIN recipes |-> CuisineOf(recipes[i])])

\* The number of slots of a cuisine; calculateDistribution divides it by
\* recipes.length.
CuisineCount(recipes, cuisine) ==
    Cardinality({i \in DOMAIN recipes : CuisineOf(recipes[i]) = cuisine})

\* cuisines.reduce((a, b) => distribution[a] > distribution[b] ? a : b)
RECURSIVE ReduceDominant(_, _)
ReduceDominant(recipes, cuisines) ==
    IF Len(cuisines) = 1 THEN cuisines[1]
    ELSE LET a == ReduceDominant(recipes, SubSeq(cuisines, 1, Len(cuisines) - 1))
             b == cuisines[Len(cuisines)]
         IN  IF CuisineCount(recipes, a) > CuisineCount(recipes, b)
             THEN a ELSE b

\* cuisineDistribution[cuisine] > 0.6
Dominates(recipes, cuisine) ==
    CuisineCount(recipes, cuisine) * 10 > 6 * Len(recipes)

\* allRecipes.filter(r => r.cuisineType !== dominantCuisine
\*                        && !this.seenRecipeIds.has(r.id))
OtherCuisineRecipes(allRecipes, dominantCuisine, seen) ==
    SelectSeq(allRecipes,
              LAMBDA r : r.cuisineType # dominantCuisine /\ r.id \notin seen)

\* recipes.findIndex(r => r.recipe.cuisineType === dominantCuisine), 1-based;
\* 0 stands for "not found"
FindIndex(recipes, dominantCuisine) ==
    IF \E i \in DOMAIN recipes : CuisineOf(recipes[i]) = dominantCuisine
    THEN CHOOSE i \in DOMAIN recipes :
            /\ CuisineOf(recipes[i]) = dominantCuisine
            /\ \A j \in 1..(i - 1) : CuisineOf(recipes[j]) # dominantCuisine
    ELSE 0

\* What one run of the diversity pass will do: the slot it rewrites (1-based,
\* 0 when it rewrites none) and the recipes Math.random() picks among.
NoSubstitution == [slot |-> 0, replacements |-> <<>>]

DiversityPlan(recipes, allRecipes, seen) ==
    IF Len(recipes) <= 1 THEN NoSubstitution
    ELSE
      LET cuisines == DistributionKeys(recipes)
      IN  IF Len(cuisines) >= 2
          THEN LET dominantCuisine == ReduceDominant(recipes, cuisines)
                   otherCuisineRecipes ==
                       OtherCuisineRecipes(allRecipes, dominantCuisine, seen)
               IN  IF /\ Dominates(recipes, dominantCuisine)
                      /\ Len(otherCuisineRecipes) > 0
                      /\ CuisineCount(recipes, dominantCuisine) > 1
                      /\ FindIndex(recipes, dominantCuisine) > 0
                   THEN [slot |-> FindIndex(recipes, dominantCuisine),
                         replacements |-> otherCuisineRecipes]
                   ELSE NoSubstitution
          ELSE NoSubstitution

\* The values of Math.floor(Math.random() * otherCuisineRecipes.length) as
\* 1-based indexes; one dummy value when the pass does not draw.
RandomIndexes(plan) ==
    IF plan.slot = 0 THEN {1} ELSE DOMAIN plan.replacements

\* A substitute that keeps the score of the slot (for comparison).
SubstituteAtFullScore(replaced, replacement) ==
    [recipe |-> replacement.id,
     matchedIngredients |-> <<>>,
     matchScore |-> replaced.matchScore,
     freshness |-> 10]

\* The substitute match: matchScore * 0.8, no matched ingredients, fresh.
Substitute(replaced, replacement) ==
    [recipe |-> replacement.id,
     matchedIngredients |-> <<>>,
     matchScore |-> (replaced.matchScore * 8) \div 10,
     freshness |-> 10]

\* applyDiversity, given the index Math.random() yields.
applyDiversity(recipes, allRecipes, seen, random) ==
    LET plan == DiversityPlan(recipes, allRecipes, seen)
    IN  IF plan.slot = 0 THEN recipes
        ELSE [recipes EXCEPT ![plan.slot] =
                 Substitute(recipes[plan.slot], plan.replacements[random])]

\* --------------------------------------------------------------------------
\* RecipeAgent: messages
\* --------------------------------------------------------------------------

EmptyInputMessage ==
    [text |-> "Please provide some ingredients to get recipe recommendations.",
     count |-> 0, ingredients |-> <<>>]

\* generateRecommendationMessage: the message template, with the values it
\* interpolates.
generateRecommendationMessage(recipes, ingredients) ==
    IF Len(recipes) = 0
    THEN [text |-> "I couldn't find any recipes matching your ingredients",
          count |-> 0, ingredients |-> ingredients]
    ELSE LET topScore == recipes[1].matchScore
         IN  IF topScore * 10 > 7 * ScoreOne
             THEN [text |-> "Found great recipes using your ingredients",
                   count |-> Len(recipes), ingredients |-> <<>>]
             ELSE IF topScore * 10 > 4 * ScoreOne
             THEN [text |-> "Here are some recipes that use some of your ingredients",
                   count |-> 0, ingredients |-> <<>>]
             ELSE [text |-> "I found some recipes that use a few of your ingredients",
                   count |-> 0, ingredients |-> <<>>]

generateContextMessage(recipes, context) ==
    IF ~context.defined THEN undefined
    ELSE IF /\ context.timeOfDay = "morning"
            /\ \E i \in DOMAIN recipes : CuisineOf(recipes[i]) = "American"
    THEN "I included some breakfast-friendly options for your morning."
    ELSE IF /\ context.cookingTime = "quick"
            /\ \E i \in DOMAIN recipes :
                  CookingTimeOf[recipes[i].recipe] <= 20
    THEN "I prioritized quick recipes that take less than 20 minutes to prepare."
    ELSE undefined

\* --------------------------------------------------------------------------
\* The session: one RecipeAgent
\* --------------------------------------------------------------------------

\* updatePreferences calls a session makes
MaxUpdates == 1

\* the updatePreferences calls of a rating session
MaxRatings == 3

\* the ingredient list a rating session queries with
RatingIngredients == <<"Eggs", "Ginger">>

VARIABLES
    catalog,             \* recipeDatabase: what getAllRecipes() returns
    seenRecipeIds,       \* RecipeAgent.seenRecipeIds
    userPreferences,     \* RecipeAgent.userPreferences: cuisine -> tenths
    lastQuery,           \* RecipeAgent.lastQuery
    lastRecommendation,  \* RecipeAgent.lastRecommendation
    matchedRecipes,      \* what scoreRecipes returned in the latest pass
    call,                \* the latest call on the agent, with its arguments
    ret,                 \* what that call returned or threw
    interactions,        \* the interactions applied so far, per cuisine
    detectedIngredients, \* IngredientAgent.detectedIngredients, per session
    savedIngredients,    \* IngredientAgent.savedIngredients, per session
    ingredientContext,   \* IngredientAgent.context, per session
    loading,             \* the sessions whose loadSavedIngredients() is pending
    storage,             \* AsyncStorage under INGREDIENTS_STORAGE_KEY
    request,             \* the latest call on an ingredient agent
    storageCalls         \* the calls of ingredientStorage.ts under way

recipeVars == <<catalog, seenRecipeIds, userPreferences, lastQuery,
                lastRecommendation, matchedRecipes, call, ret, interactions>>

ingredientVars == <<detectedIngredients, savedIngredients, ingredientContext,
                    loading, storage, request, storageCalls>>

vars == <<recipeVars, ingredientVars>>

\* the sessions (one IngredientAgent each) of the model
Sessions == {"s1", "s2"}

\* the value under the key: nothing before the first setItem
null == [present |-> FALSE, ingredients |-> <<>>]

\* JSON.stringify(ingredients) under the key
Stored(ingredients) == [present |-> TRUE, ingredients |-> ingredients]

Request(session, op, items, names, analyzeContext) ==
    [session |-> session, op |-> op, items |-> items, names |-> names,
     analyzeContext |-> analyzeContext]

\* the calls of addIngredientToStorage / removeIngredientFromStorage that
\* may be under way at once
CallIds == {"a", "b"}

\* a call that has not been made
NotCalled ==
    [pc |-> "idle", op |-> "", name |-> <<>>, read |-> "pending",
     updated |-> <<>>, result |-> "pending"]

\* Every agent is constructed and its loadSavedIngredients() is pending.
IngredientInit ==
    /\ storageCalls = [c \in CallIds |-> NotCalled]
    /\ detectedIngredients = [s \in Sessions |-> <<>>]
    /\ savedIngredients = [s \in Sessions |-> <<>>]
    /\ ingredientContext = [s \in Sessions |-> EmptyContext]
    /\ loading = Sessions
    /\ storage = null
    /\ request = Request("", "new", <<>>, <<>>, FALSE)

Cuisines == {r.cuisineType : r \in AllRecipeData}

NoRecipes == <<>>

Call(op, ingredients, context, recipe, interaction) ==
    [op |-> op, ingredients |-> ingredients, context |-> context,
     recipe |-> recipe, interaction |-> interaction]

Returned(recipes, message, contextMessage) ==
    [kind |-> "recommendation", recipes |-> recipes, message |-> message,
     contextMessage |-> contextMessage]

NoMessage == [text |-> "", count |-> 0, ingredients |-> <<>>]

Void == [kind |-> "void", recipes |-> NoRecipes, message |-> NoMessage,
         contextMessage |-> undefined]

Threw == [kind |-> "TypeError", recipes |-> NoRecipes, message |-> NoMessage,
          contextMessage |-> undefined]

Ids(recipes) == {recipes[i].recipe : i \in DOMAIN recipes}

Init ==
    /\ catalog \in Catalogs
    /\ seenRecipeIds = {}
    /\ userPreferences = [c \in {} |-> 0]
    /\ lastQuery = <<>>
    /\ lastRecommendation = NoRecipes
    /\ matchedRecipes = NoRecipes
    /\ call = Call("new", None, NoContext, "", "")
    /\ ret = Void
    /\ interactions = [c \in Cuisines |-> [i \in Interactions |-> 0]]
    /\ IngredientInit

\* The body of getRecommendations(ingredients, context), run with `seen` as
\* this.seenRecipeIds.  `[...ingredients]` throws a TypeError on a missing
\* list, before anything is assigned; scoreRecipes throws on a malformed
\* catalog entry, after lastQuery is assigned.
getRecommendations(ingredients, context, seen) ==
    IF ~ingredients.defined
    THEN /\ ret' = Threw
         /\ matchedRecipes' = NoRecipes
         /\ UNCHANGED <<lastQuery, lastRecommendation>>
    ELSE
      /\ lastQuery' = ingredients.items
      /\ IF Len(ingredients.items) = 0
         THEN /\ ret' = Returned(NoRecipes, EmptyInputMessage, undefined)
              /\ matchedRecipes' = NoRecipes
              /\ UNCHANGED lastRecommendation
         ELSE IF ScoringThrows(getAllRecipes(catalog))
         THEN /\ ret' = Threw
              /\ matchedRecipes' = NoRecipes
              /\ UNCHANGED lastRecommendation
         ELSE
           LET allRecipes == getAllRecipes(catalog)
               matched == scoreRecipes(allRecipes, ingredients.items, context,
                                       seen, userPreferences)
           IN  \E random \in RandomIndexes(DiversityPlan(matched, allRecipes, seen)) :
                 LET diverseRecipes ==
                         applyDiversity(matched, allRecipes, seen, random)
                 IN  /\ matchedRecipes' = matched
                     /\ lastRecommendation' = diverseRecipes
                     /\ ret' = Returned(
                            diverseRecipes,
                            generateRecommendationMessage(diverseRecipes,
                                                          ingredients.items),
                            generateContextMessage(diverseRecipes, context))

\* The calls made: every ingredient argument without a context, and one list
\* with a context.
Queries ==
    {[ingredients |-> a, context |-> NoContext] : a \in IngredientArgs}
    \cup {[ingredients |-> Some(RatingIngredients), context |-> MorningContext]}

\* What getRecommendations(ingredients, context) may return for a list that
\* is present, one result per value of Math.random().
RecommendationsFor(db, ingredients, context, seen, prefs) ==
    IF Len(ingredients) = 0
    THEN {Returned(NoRecipes, EmptyInputMessage, undefined)}
    ELSE IF ScoringThrows(getAllRecipes(db)) THEN {Threw}
    ELSE
      LET allRecipes == getAllRecipes(db)
          matched == scoreRecipes(allRecipes, ingredients, context, seen, prefs)
      IN  {LET diverseRecipes ==
                   applyDiversity(matched, allRecipes, seen, random)
           IN  Returned(diverseRecipes,
                        generateRecommendationMessage(diverseRecipes, ingredients),
                        generateContextMessage(diverseRecipes, context)) :
             random \in RandomIndexes(DiversityPlan(matched, allRecipes, seen))}

GetRecommendations ==
    \E q \in Queries :
        /\ getRecommendations(q.ingredients, q.context, seenRecipeIds)
        /\ call' = Call("getRecommendations", q.ingredients, q.context, "", "")
        /\ UNCHANGED <<ingredientVars, catalog, seenRecipeIds,
                       userPreferences, interactions>>

\* A refresh that marks nothing, and one that forgets what was marked (for
\* comparison).
SeenKept(seen, recommendation) == seen

SeenReplaced(seen, recommendation) == Ids(recommendation)

\* The ids refreshRecommendations adds to seenRecipeIds.
SeenAfterRefresh(seen, recommendation) == seen \cup Ids(recommendation)

\* A refresh that passes a context on (for comparison).
RefreshWithContext ==
    /\ seenRecipeIds' = seenRecipeIds \cup Ids(lastRecommendation)
    /\ getRecommendations(Some(lastQuery), MorningContext, seenRecipeIds')
    /\ call' = Call("refreshRecommendations", None, NoContext, "", "")
    /\ UNCHANGED <<ingredientVars, catalog, userPreferences, interactions>>

RefreshRecommendations ==
    /\ seenRecipeIds' = SeenAfterRefresh(seenRecipeIds, lastRecommendation)
    /\ getRecommendations(Some(lastQuery), NoContext, seenRecipeIds')
    /\ call' = Call("refreshRecommendations", None, NoContext, "", "")
    /\ UNCHANGED <<ingredientVars, catalog, userPreferences, interactions>>

\* A reset that clears nothing (for comparison).
SeenUntouched(seen) == seen

\* seenRecipeIds.clear()
ClearedSeen(seen) == {}

ResetSeenRecipes ==
    /\ seenRecipeIds' = ClearedSeen(seenRecipeIds)
    /\ call' = Call("resetSeenRecipes", None, NoContext, "", "")
    /\ ret' = Void
    /\ matchedRecipes' = NoRecipes
    /\ UNCHANGED <<ingredientVars, catalog, userPreferences, lastQuery,
                   lastRecommendation,
                   interactions>>

\* An update that adds the same amount for every interaction (for
\* comparison).
UnitAdjustment(interaction) == 1

\* the switch on `interaction`, in tenths
Adjustment(interaction) ==
    CASE interaction = "liked"    -> 2
      [] interaction = "disliked" -> -3
      [] interaction = "viewed"   -> 1
      [] OTHER                    -> 0

\* this.userPreferences.set(cuisineType, currentScore + adjustment)
AdjustedPreferences(prefs, cuisineType, interaction) ==
    LET currentScore == PreferenceOf(prefs, cuisineType)
    IN  [c \in DOMAIN prefs \cup {cuisineType} |->
            IF c = cuisineType THEN currentScore + Adjustment(interaction)
            ELSE prefs[c]]

\* the number of updatePreferences calls made so far
RECURSIVE SumOfCounts(_, _)
SumOfCounts(counts, pairs) ==
    IF pairs = <<>> THEN 0
    ELSE counts[pairs[1][1]][pairs[1][2]] + SumOfCounts(counts, Tail(pairs))

RECURSIVE SeqOf(_)
SeqOf(S) == IF S = {} THEN <<>>
            ELSE LET x == CHOOSE x \in S : TRUE IN <<x>> \o SeqOf(S \ {x})

CuisineInteractions == SeqOf(Cuisines \X Interactions)

TotalInteractions == SumOfCounts(interactions, CuisineInteractions)

\* The recipes handed to updatePreferences: the first catalog recipe of each
\* cuisine (only recipe.cuisineType is read).
RatedRecipes(db) ==
    {i \in DOMAIN db :
        \A j \in 1..(i - 1) : db[j].cuisineType # db[i].cuisineType}

\* updatePreferences(recipe, interaction), while fewer than `limit` calls of
\* it have been made
updatePreferences(limit, rated) ==
    /\ TotalInteractions < limit
    /\ \E i \in rated, interaction \in Interactions :
        LET recipe == catalog[i]
        IN  /\ userPreferences' =
                   AdjustedPreferences(userPreferences, recipe.cuisineType,
                                       interaction)
            /\ interactions' =
                   [interactions EXCEPT ![recipe.cuisineType][interaction] = @ + 1]
            /\ call' = Call("updatePreferences", None, NoContext, recipe.id,
                            interaction)
            /\ ret' = Void
            /\ matchedRecipes' = NoRecipes
            /\ UNCHANGED <<ingredientVars, catalog, seenRecipeIds, lastQuery,
                           lastRecommendation>>

\* In a general session the first catalog recipe is the one rated.
UpdatePreferences == updatePreferences(MaxUpdates, {1})

Next ==
    \/ GetRecommendations
    \/ RefreshRecommendations
    \/ ResetSeenRecipes
    \/ UpdatePreferences

Spec == Init /\ [][Next]_vars

\* --------------------------------------------------------------------------
\* A session on the shipped catalog that rates recipes repeatedly between
\* queries for one ingredient list.
\* --------------------------------------------------------------------------

RatingInit == Init /\ catalog = RECIPE_DATABASE

RatingQuery ==
    /\ getRecommendations(Some(RatingIngredients), NoContext, seenRecipeIds)
    /\ call' = Call("getRecommendations", Some(RatingIngredients), NoContext,
                    "", "")
    /\ UNCHANGED <<ingredientVars, catalog, seenRecipeIds, userPreferences,
                   interactions>>

RatingUpdate == updatePreferences(MaxRatings, RatedRecipes(catalog))

RatingNext ==
    \/ RatingQuery
    \/ RefreshRecommendations
    \/ RatingUpdate

RatingSpec == RatingInit /\ [][RatingNext]_vars

\* --------------------------------------------------------------------------
\* Properties of the recommendation session
\* --------------------------------------------------------------------------

RefreshStep == call'.op = "refreshRecommendations"

ResetStep == call'.op = "resetSeenRecipes"

QueryStep == call'.op = "getRecommendations"

UpdateStep == call'.op = "updatePreferences"

\* the slots in which the returned list differs from what scoreRecipes gave
ChangedSlots ==
    {i \in DOMAIN ret.recipes :
        i \notin DOMAIN matchedRecipes \/ ret.recipes[i] # matchedRecipes[i]}

\* C1: refreshRecommendations() makes seenRecipeIds exactly the old set plus
\* the ids of lastRecommendation, keeps lastQuery, and returns what
\* getRecommendations(lastQuery) returns over the enlarged set.
RefreshMarksSeenAndRequeries ==
    [][RefreshStep =>
          /\ seenRecipeIds' =
                 seenRecipeIds
                     \cup {lastRecommendation[i].recipe :
                              i \in DOMAIN lastRecommendation}
          /\ lastQuery' = lastQuery
          /\ ret' \in RecommendationsFor(catalog, lastQuery, NoContext,
                                         seenRecipeIds', userPreferences)]_vars

\* a refresh has marked several recipes and returned several
RefreshHasMarkedRecipes ==
    /\ call.op = "refreshRecommendations"
    /\ Cardinality(seenRecipeIds) >= 2
    /\ Len(ret.recipes) >= 2
    /\ lastQuery # <<>>

\* C2, as amended: refreshRecommendations() never shrinks seenRecipeIds; the
\* size stays equal exactly when every id of lastRecommendation is already in
\* the set (an empty list included), and grows otherwise.
RefreshGrowsSeenByUnseenIds ==
    [][RefreshStep =>
          /\ Cardinality(seenRecipeIds') >= Cardinality(seenRecipeIds)
          /\ Cardinality(seenRecipeIds') = Cardinality(seenRecipeIds)
                 <=> Ids(lastRecommendation) \subseteq seenRecipeIds]_vars

\* after a refresh: a recommendation that is not empty and all seen, so that
\* the next refresh adds nothing
RefreshedListIsAllSeen ==
    /\ call.op = "refreshRecommendations"
    /\ lastRecommendation # <<>>
    /\ Ids(lastRecommendation) \subseteq seenRecipeIds

\* C2, as stated: refreshRecommendations() strictly increases the size of
\* seenRecipeIds, and leaves it equal only when lastRecommendation is empty.
RefreshGrowsSeenUnlessEmpty ==
    [][RefreshStep =>
          IF lastRecommendation = <<>>
          THEN Cardinality(seenRecipeIds') = Cardinality(seenRecipeIds)
          ELSE Cardinality(seenRecipeIds') > Cardinality(seenRecipeIds)]_vars

\* C3: the list refreshRecommendations() returns holds no recipe that was
\* shown before (every such id is in seenRecipeIds by then).
RefreshReturnsNoRepeats ==
    call.op = "refreshRecommendations" =>
        Ids(ret.recipes) \cap seenRecipeIds = {}

\* C4: in every returned list a match has freshness 0.3 when its id is in
\* seenRecipeIds and 1.0 when it is not, whatever calls came before.
FreshnessTellsSeen ==
    ret.kind = "recommendation" =>
        \A i \in DOMAIN ret.recipes :
            /\ ret.recipes[i].recipe \in seenRecipeIds
                   => ret.recipes[i].freshness = 3
            /\ ret.recipes[i].recipe \notin seenRecipeIds
                   => ret.recipes[i].freshness = 10

\* a list with a seen and an unseen recipe, returned after a preference update
ListMixesSeenAndUnseen ==
    /\ ret.kind = "recommendation"
    /\ DOMAIN userPreferences # {}
    /\ \E i, j \in DOMAIN ret.recipes :
           /\ ret.recipes[i].freshness = 3
           /\ ret.recipes[j].freshness = 10

\* C5: resetSeenRecipes() empties seenRecipeIds and keeps userPreferences,
\* lastQuery and lastRecommendation; a refresh right after it re-queries
\* lastQuery, and a getRecommendations right after it scores with freshness 1.
ResetClearsOnlySeen ==
    [][/\ ResetStep =>
             /\ seenRecipeIds' = {}
             /\ UNCHANGED <<userPreferences, lastQuery, lastRecommendation>>
       /\ call.op = "resetSeenRecipes" /\ RefreshStep =>
             /\ lastQuery' = lastQuery
             /\ ret' \in RecommendationsFor(catalog, lastQuery, NoContext,
                                            seenRecipeIds', userPreferences)
       /\ call.op = "resetSeenRecipes" /\ QueryStep =>
             /\ \A i \in DOMAIN ret'.recipes : ret'.recipes[i].freshness = 10
             /\ \A i \in DOMAIN matchedRecipes' :
                    matchedRecipes'[i].freshness = 10]_vars

\* a reset made after seen recipes were recommended at a penalty, with
\* preferences recorded
ResetAfterPenalizedList ==
    /\ call.op = "resetSeenRecipes"
    /\ seenRecipeIds = {}
    /\ lastQuery # <<>>
    /\ DOMAIN userPreferences # {}
    /\ \E i \in DOMAIN lastRecommendation : lastRecommendation[i].freshness = 3

\* the deltas applied so far to cuisine c, summed, in tenths
SumOfDeltas(c) ==
    2 * interactions[c]["liked"] - 3 * interactions[c]["disliked"]
        + interactions[c]["viewed"]

\* C6: updatePreferences(recipe, interaction) adds 0.2, -0.3 or 0.1 to the
\* value of recipe.cuisineType, counted from 0 when absent, and changes no
\* other cuisine and not seenRecipeIds; every stored value is the sum of the
\* deltas applied to its cuisine, unclamped.
UpdateAddsItsDelta ==
    [][/\ UpdateStep =>
             LET cuisineType == RecipeOf(call'.recipe).cuisineType
                 delta == CASE call'.interaction = "liked"    -> 2
                            [] call'.interaction = "disliked" -> -3
                            [] call'.interaction = "viewed"   -> 1
                 before == IF cuisineType \in DOMAIN userPreferences
                           THEN userPreferences[cuisineType] ELSE 0
             IN  /\ DOMAIN userPreferences' =
                        DOMAIN userPreferences \cup {cuisineType}
                 /\ userPreferences'[cuisineType] = before + delta
                 /\ \A c \in DOMAIN userPreferences \ {cuisineType} :
                        userPreferences'[c] = userPreferences[c]
                 /\ seenRecipeIds' = seenRecipeIds
       /\ \A c \in Cuisines :
             IF c \in DOMAIN userPreferences'
             THEN userPreferences'[c] = SumOfDeltas(c)'
             ELSE SumOfDeltas(c)' = 0]_vars

\* three likes of one cuisine, given while recipes are marked seen
ThreeLikesGiven ==
    /\ call.op = "updatePreferences"
    /\ seenRecipeIds # {}
    /\ \E c \in DOMAIN userPreferences :
           /\ userPreferences[c] = 6
           /\ interactions[c]["liked"] = 3
           /\ interactions[c]["disliked"] = 0
           /\ interactions[c]["viewed"] = 0

\* C7, as amended: for a non-empty ingredient list every match scoreRecipes
\* returns has a matched ingredient, and so has every recipe of the returned
\* list except the at most one slot the diversity pass substituted, which
\* carries no matched ingredients.
OnlyASubstituteLacksMatches ==
    ret.kind = "recommendation" =>
        /\ \A i \in DOMAIN matchedRecipes :
               /\ matchedRecipes[i].matchedIngredients # <<>>
               /\ MatchedOf[matchedRecipes[i].recipe][lastQuery] # <<>>
        /\ \A i \in ChangedSlots : ret.recipes[i].matchedIngredients = <<>>
        /\ Cardinality(ChangedSlots) <= 1

\* a returned list whose substitute shares no ingredient with the query
SubstituteMatchesNothing ==
    /\ ret.kind = "recommendation"
    /\ Len(ret.recipes) >= 2
    /\ \E i \in ChangedSlots :
           MatchedOf[ret.recipes[i].recipe][lastQuery] = <<>>

\* C7, as stated: for a non-empty ingredient list every recipe of the
\* returned list has an ingredient matched by a user ingredient.
EveryResultMatchesAnIngredient ==
    ret.kind = "recommendation" =>
        \A i \in DOMAIN ret.recipes :
            MatchedOf[ret.recipes[i].recipe][lastQuery] # <<>>

\* C8: the list getRecommendations returns is no longer than the list the
\* diversity pass was given and holds at most 5 recipes; at most one slot
\* differs from the input, every other slot keeps its match.
DiversityChangesAtMostOneSlot ==
    ret.kind = "recommendation" =>
        /\ Len(ret.recipes) <= Len(matchedRecipes)
        /\ Len(ret.recipes) <= 5
        /\ Cardinality(ChangedSlots) <= 1
        /\ \A i \in DOMAIN ret.recipes \ ChangedSlots :
               ret.recipes[i] = matchedRecipes[i]

\* a full list of 5 in which the diversity pass substituted a slot
FullListWithSubstitute ==
    /\ ret.kind = "recommendation"
    /\ Len(matchedRecipes) = 5
    /\ Cardinality(ChangedSlots) = 1

\* the cuisines that hold more than 60% of the scored list, with more than
\* one recipe, while the catalog has an unseen recipe of another cuisine
CuisinesToDilute ==
    {c \in Cuisines :
        LET held == Cardinality({i \in DOMAIN matchedRecipes :
                                    CuisineOf(matchedRecipes[i]) = c})
        IN  /\ held * 10 > 6 * Len(matchedRecipes)
            /\ held > 1
            /\ \E j \in DOMAIN catalog :
                   /\ catalog[j].cuisineType # c
                   /\ catalog[j].id \notin seenRecipeIds}

\* C9: whenever one cuisine holds more than 60% of the scored list with more
\* than one recipe and the catalog has an unseen recipe of another cuisine,
\* exactly one slot is substituted, also when the whole list is one cuisine.
DominanceAlwaysSubstitutes ==
    ret.kind = "recommendation" /\ CuisinesToDilute # {} =>
        Cardinality(ChangedSlots) = 1

\* C10: getRecommendations with an empty or a missing ingredient list does
\* not throw and returns no recipes with the empty-input message.
EmptyOrMissingInputIsAnswered ==
    /\ call.op = "getRecommendations"
    /\ ~call.ingredients.defined \/ call.ingredients.items = <<>>
    => ret = Returned(NoRecipes, EmptyInputMessage, undefined)

\* --------------------------------------------------------------------------
\* A session over a database that may hold a malformed entry
\* --------------------------------------------------------------------------

LooseInit ==
    /\ catalog \in {RECIPE_DATABASE, LooseDatabase}
    /\ seenRecipeIds = {}
    /\ userPreferences = [c \in {} |-> 0]
    /\ lastQuery = <<>>
    /\ lastRecommendation = NoRecipes
    /\ matchedRecipes = NoRecipes
    /\ call = Call("new", None, NoContext, "", "")
    /\ ret = Void
    /\ interactions = [c \in Cuisines |-> [i \in Interactions |-> 0]]
    /\ IngredientInit

LooseSpec == LooseInit /\ [][Next]_vars

\* the entries of the catalog that have every field the scorer reads
WellFormedEntries ==
    SelectSeq(catalog, LAMBDA r : "ingredients" \in DOMAIN r)

\* C11: a recommendation pass over a catalog with an entry that lacks
\* `ingredients` does not throw; it returns what the pass returns over the
\* remaining, well-formed entries.
MalformedEntriesAreSkipped ==
    /\ call.op \in {"getRecommendations", "refreshRecommendations"}
    /\ call.op = "getRecommendations" => call.ingredients.defined
    => /\ ret.kind = "recommendation"
       /\ ret \in RecommendationsFor(WellFormedEntries, lastQuery,
                                     call.context, seenRecipeIds,
                                     userPreferences)

\* --------------------------------------------------------------------------
\* The scorer on its own: scoreRecipes applied in sessions that have one
\* recipe marked seen and one cuisine rated, over catalogs in either order
\* --------------------------------------------------------------------------

ScoringCatalogs ==
    { RECIPE_DATABASE,
      <<Recipe6, Recipe2>>,
      <<Recipe2, Recipe6>>,
      <<Recipe1, Recipe2, Recipe3, Recipe4, Recipe5, Recipe6>> }

\* preference values that likes and dislikes add up to, in tenths
PreferenceValues == {-9, -3, 2}

ScoringPreferences ==
    {[c \in {} |-> 0]}
    \cup {[c \in {cuisine} |-> v] :
             cuisine \in {"Italian", "Asian"}, v \in PreferenceValues}

\* the likes and dislikes that add up to the preferences
InteractionsFor(prefs) ==
    [c \in Cuisines |->
        [i \in Interactions |->
            CASE i = "liked" /\ PreferenceOf(prefs, c) > 0
                     -> PreferenceOf(prefs, c) \div 2
              [] i = "disliked" /\ PreferenceOf(prefs, c) < 0
                     -> (0 - PreferenceOf(prefs, c)) \div 3
              [] OTHER -> 0]]

ScoringInit ==
    /\ catalog \in ScoringCatalogs
    /\ seenRecipeIds \in {{}} \cup {{catalog[i].id} : i \in DOMAIN catalog}
    /\ userPreferences \in ScoringPreferences
    /\ lastQuery = <<>>
    /\ lastRecommendation = NoRecipes
    /\ matchedRecipes = NoRecipes
    /\ call = Call("new", None, NoContext, "", "")
    /\ ret = Void
    /\ interactions = InteractionsFor(userPreferences)
    /\ IngredientInit

\* this.scoreRecipes(allRecipes, ingredients, context)
ScoreRecipes ==
    \E ingredients \in ScoringLists, context \in {NoContext, MorningContext} :
        /\ matchedRecipes' =
               scoreRecipes(getAllRecipes(catalog), ingredients, context,
                            seenRecipeIds, userPreferences)
        /\ call' = Call("scoreRecipes", Some(ingredients), context, "", "")
        /\ ret' = Void
        /\ UNCHANGED <<ingredientVars, catalog, seenRecipeIds,
                       userPreferences, lastQuery,
                       lastRecommendation, interactions>>

ScoringQuery ==
    \E ingredients \in ScoringLists :
        /\ getRecommendations(Some(ingredients), NoContext, seenRecipeIds)
        /\ call' = Call("getRecommendations", Some(ingredients), NoContext,
                        "", "")
        /\ UNCHANGED <<ingredientVars, catalog, seenRecipeIds,
                       userPreferences, interactions>>

ScoringNext ==
    \/ ScoreRecipes
    \/ ScoringQuery

ScoringSpec == ScoringInit /\ [][ScoringNext]_vars

Min(a, b) == IF a < b THEN a ELSE b

\* C12, as amended: scoreRecipes given an empty ingredient list excludes no
\* recipe (every catalog recipe is a candidate, the 5 best are returned, with
\* no matched ingredients), but getRecommendations never scores an empty
\* list: it returns no recipes and the empty-input message.
EmptyListScoresEveryRecipe ==
    /\ call.op = "scoreRecipes" /\ call.ingredients.items = <<>> =>
           /\ Len(ScoreResults(getAllRecipes(catalog), <<>>, call.context,
                               seenRecipeIds, userPreferences))
                  = Len(catalog)
           /\ Len(matchedRecipes) = Min(Len(catalog), 5)
           /\ Cardinality(Ids(matchedRecipes)) = Len(matchedRecipes)
           /\ \A i \in DOMAIN matchedRecipes :
                  matchedRecipes[i].matchedIngredients = <<>>
    /\ call.op = "getRecommendations" /\ call.ingredients.items = <<>> =>
           /\ ret.recipes = <<>>
           /\ ret.message = EmptyInputMessage
           /\ matchedRecipes = <<>>

\* the scorer was given an empty list over the catalog of six and kept five
EmptyListScoredOverSix ==
    /\ call.op = "scoreRecipes"
    /\ call.ingredients.items = <<>>
    /\ Len(catalog) = 6
    /\ Len(matchedRecipes) = 5
    /\ seenRecipeIds # {}

\* C12, as stated: a query with no ingredients still shows recipes, every
\* catalog recipe being a candidate.
EmptyQueryStillShowsRecipes ==
    call.op = "getRecommendations" /\ call.ingredients.items = <<>> =>
        Len(ret.recipes) = Min(Len(catalog), 5)

\* the recipes scoreRecipes keeps for the list it was given
Candidates ==
    {catalog[i].id : i \in {j \in DOMAIN catalog :
                               Included(catalog[j], call.ingredients.items)}}

\* the score of a recipe for the latest call, had no recipe been seen
UnpenalizedScore(id) ==
    ScoreOf(RecipeOf(id), call.ingredients.items, call.context, {},
            userPreferences).matchScore

\* the one seen recipe would head the list if no recipe had been seen
SeenWouldRankFirst(r1) ==
    /\ call.op = "scoreRecipes"
    /\ seenRecipeIds = {r1}
    /\ r1 \in Candidates
    /\ scoreRecipes(getAllRecipes(catalog), call.ingredients.items,
                    call.context, {}, userPreferences)[1].recipe = r1

\* 1-based position in the list scoreRecipes returned, 0 when cut or absent
Position(id) ==
    IF id \in Ids(matchedRecipes)
    THEN CHOOSE i \in DOMAIN matchedRecipes : matchedRecipes[i].recipe = id
    ELSE 0

CatalogIndex(id) == CHOOSE i \in DOMAIN catalog : catalog[i].id = id

RanksBelow(r1, r2) ==
    Position(r1) = 0 \/ (Position(r2) > 0 /\ Position(r2) < Position(r1))

\* C13, as amended: with seenRecipeIds = {r1} and r1 first without the
\* penalty, r1 ranks below every other candidate whose unpenalized score is
\* strictly more than 0.3 times r1's; a candidate at exactly 0.3 times ranks
\* above r1 only when it comes before r1 in the catalog.
SeenRanksBelowStrictlyBetter ==
    \A r1 \in seenRecipeIds :
        SeenWouldRankFirst(r1) =>
            \A r2 \in Candidates \ {r1} :
                /\ 10 * UnpenalizedScore(r2) > 3 * UnpenalizedScore(r1)
                       => RanksBelow(r1, r2)
                /\ 10 * UnpenalizedScore(r2) = 3 * UnpenalizedScore(r1)
                       => (RanksBelow(r1, r2)
                              <=> CatalogIndex(r2) < CatalogIndex(r1))

\* the seen recipe was overtaken by a weaker one, under a negative preference
SeenWasOvertaken ==
    \E r1 \in seenRecipeIds :
        /\ SeenWouldRankFirst(r1)
        /\ \E c \in DOMAIN userPreferences : userPreferences[c] < 0
        /\ \E r2 \in Candidates \ {r1} :
               /\ 10 * UnpenalizedScore(r2) > 3 * UnpenalizedScore(r1)
               /\ UnpenalizedScore(r2) < UnpenalizedScore(r1)
               /\ Position(r2) > 0
               /\ Position(r2) < Position(r1)

\* C13, as stated: with seenRecipeIds = {r1} and r1 first without the
\* penalty, r1 ranks below every other candidate whose unpenalized score is
\* at least 0.3 times r1's, ties included.
SeenRanksBelowAtLeastAsGood ==
    \A r1 \in seenRecipeIds :
        SeenWouldRankFirst(r1) =>
            \A r2 \in Candidates \ {r1} :
                10 * UnpenalizedScore(r2) >= 3 * UnpenalizedScore(r1)
                    => RanksBelow(r1, r2)

\* --------------------------------------------------------------------------
\* Ingredient sessions
\* --------------------------------------------------------------------------

\* saveIngredientsToStorage(ingredients): setItem is issued with the list
\* serialized at the call; requests on the one key are served in the order
\* they are issued.
saveIngredientsToStorage(ingredients) == storage' = Stored(ingredients)

\* detectedItems.map(item => ({ name: normalize(item.name), confidence }))
NormalizedItems(detectedItems) ==
    [i \in DOMAIN detectedItems |->
        Item(NormalizedName[detectedItems[i].name],
             detectedItems[i].confidence)]

\* processDetectedIngredients(detectedItems, options) on the agent of
\* session s.  The list inferMissingIngredients() returns is dropped, so
\* options.inferMissingItems changes nothing.
processDetectedIngredients(s, detectedItems, analyzeContext) ==
    LET normalizedItems == NormalizedItems(detectedItems)
        enrichedItems == enrichIngredients(filterIngredients(normalizedItems))
    IN  /\ detectedIngredients' =
               [detectedIngredients EXCEPT ![s] = enrichedItems]
        /\ saveIngredientsToStorage(enrichedItems)
        /\ IF analyzeContext
           THEN \E hours \in Hours :
                    ingredientContext' =
                        [ingredientContext EXCEPT
                            ![s] = analyzeIngredientContext(enrichedItems,
                                                            hours)]
           ELSE UNCHANGED ingredientContext
        /\ request' = Request(s, "processDetectedIngredients",
                              detectedItems, <<>>, analyzeContext)
        /\ UNCHANGED <<recipeVars, storageCalls, savedIngredients, loading>>

ProcessDetectedIngredients(s) ==
    \E detectedItems \in Detections, analyzeContext \in BOOLEAN :
        processDetectedIngredients(s, detectedItems, analyzeContext)

\* the names of a manual list that no detected ingredient carries
NewIngredients(detected, ingredients) ==
    LET normalized == [i \in DOMAIN ingredients |->
                          NormalizedName[ingredients[i]]]
        fresh == SelectSeq(normalized,
                     LAMBDA name :
                         ~\E i \in DOMAIN detected :
                             toLowerCase(detected[i].name) = toLowerCase(name))
    IN  [i \in DOMAIN fresh |-> ManualIngredient(fresh[i])]

addManualIngredients(s, ingredients) ==
    LET newIngredients == NewIngredients(detectedIngredients[s], ingredients)
        merged == detectedIngredients[s] \o newIngredients
    IN  /\ IF Len(newIngredients) > 0
           THEN /\ detectedIngredients' =
                       [detectedIngredients EXCEPT ![s] = merged]
                /\ \E hours \in Hours :
                       ingredientContext' =
                           [ingredientContext EXCEPT
                               ![s] = analyzeIngredientContext(merged, hours)]
                /\ saveIngredientsToStorage(merged)
           ELSE UNCHANGED <<detectedIngredients, ingredientContext, storage>>
        /\ request' = Request(s, "addManualIngredients", <<>>, ingredients,
                              FALSE)
        /\ UNCHANGED <<recipeVars, storageCalls, savedIngredients, loading>>

AddManualIngredients(s) ==
    \E ingredients \in ManualLists : addManualIngredients(s, ingredients)

removeIngredients(s, ingredientNames) ==
    LET normalizedNames ==
            {toLowerCase(NormalizedName[ingredientNames[i]]) :
                 i \in DOMAIN ingredientNames}
        kept == SelectSeq(detectedIngredients[s],
                    LAMBDA ingredient :
                        toLowerCase(ingredient.name) \notin normalizedNames)
    IN  /\ detectedIngredients' = [detectedIngredients EXCEPT ![s] = kept]
        /\ \E hours \in Hours :
               ingredientContext' =
                   [ingredientContext EXCEPT
                       ![s] = analyzeIngredientContext(kept, hours)]
        /\ saveIngredientsToStorage(kept)
        /\ request' = Request(s, "removeIngredients", <<>>, ingredientNames,
                              FALSE)
        /\ UNCHANGED <<recipeVars, storageCalls, savedIngredients, loading>>

RemoveIngredients(s) ==
    \E ingredientNames \in RemovalLists :
        removeIngredients(s, ingredientNames)

ClearIngredients(s) ==
    /\ detectedIngredients' = [detectedIngredients EXCEPT ![s] = <<>>]
    /\ ingredientContext' = [ingredientContext EXCEPT ![s] = EmptyContext]
    /\ saveIngredientsToStorage(<<>>)
    /\ request' = Request(s, "clearIngredients", <<>>, <<>>, FALSE)
    /\ UNCHANGED <<recipeVars, storageCalls, savedIngredients, loading>>

\* getStoredIngredients(): the parsed value, [] when the key is absent
getStoredIngredients ==
    IF storage.present THEN storage.ingredients ELSE <<>>

\* the constructor's loadSavedIngredients() completes
LoadSavedIngredients(s) ==
    /\ s \in loading
    /\ loading' = loading \ {s}
    /\ savedIngredients' =
           [savedIngredients EXCEPT ![s] = getStoredIngredients]
    /\ request' = Request(s, "loadSavedIngredients", <<>>, <<>>, FALSE)
    /\ UNCHANGED <<recipeVars, detectedIngredients, ingredientContext,
                   storage, storageCalls>>

\* One session of the ingredient agent.
SessionInit ==
    /\ Init
    /\ catalog = RECIPE_DATABASE

IngredientNext ==
    \/ ProcessDetectedIngredients("s1")
    \/ AddManualIngredients("s1")
    \/ RemoveIngredients("s1")
    \/ ClearIngredients("s1")
    \/ LoadSavedIngredients("s1")

IngredientSpec == SessionInit /\ [][IngredientNext]_vars

\* no two entries of a list carry names that are equal ignoring case
UniqueNames(ingredients) ==
    \A i, j \in DOMAIN ingredients :
        i # j => toLowerCase(ingredients[i].name)
                     # toLowerCase(ingredients[j].name)

\* C14: after any sequence of processDetectedIngredients,
\* addManualIngredients, removeIngredients and clearIngredients, a session's
\* ingredient list holds no two entries whose names are equal ignoring case.
IngredientNamesAreUnique ==
    \A s \in Sessions : UniqueNames(detectedIngredients[s])

\* the part of a context that depends on the ingredient names alone
Analysis(context) ==
    [possibleCuisines |-> context.possibleCuisines,
     cookingTechniques |-> context.cookingTechniques,
     mealType |-> context.mealType]

\* C15: after every operation on a session's ingredient list, the stored
\* context (possibleCuisines, cookingTechniques, mealType) equals the
\* analysis of the current ingredient names.
ContextMatchesIngredients ==
    \A s \in Sessions :
        \A hours \in Hours :
            Analysis(ingredientContext[s])
                = Analysis(analyzeIngredientContext(detectedIngredients[s],
                                                    hours))

\* the entries the latest processDetectedIngredients call kept, as
\* filterIngredients returned them
FilterInput == NormalizedItems(request.items)

FilterOutput == filterIngredients(FilterInput)

\* C16: filterIngredients never returns two entries with the same
\* case-insensitive name, never returns an entry whose lower-cased name
\* contains a blocklisted term, and of several entries with the same name
\* keeps the first one in input order; the stored list carries exactly the
\* entries it returned.
FilterDropsNonFoodAndKeepsFirst ==
    request.op = "processDetectedIngredients" =>
        /\ UniqueNames(FilterOutput)
        /\ \A i \in DOMAIN FilterOutput :
               \A k \in DOMAIN NonFoodKeywords :
                   ~includes(toLowerCase(FilterOutput[i].name),
                             NonFoodKeywords[k])
        /\ \A i \in DOMAIN FilterOutput :
               \E j \in DOMAIN FilterInput :
                   /\ FilterOutput[i] = FilterInput[j]
                   /\ \A h \in 1..(j - 1) :
                          toLowerCase(FilterInput[h].name)
                              # toLowerCase(FilterInput[j].name)
        /\ Len(detectedIngredients[request.session]) = Len(FilterOutput)
        /\ \A i \in DOMAIN FilterOutput :
               /\ detectedIngredients[request.session][i].name
                      = FilterOutput[i].name
               /\ detectedIngredients[request.session][i].confidence
                      = FilterOutput[i].confidence

\* a detection with a duplicate in another case and a blocklisted item was
\* filtered down to its first entry
DuplicateAndNonFoodFiltered ==
    /\ request.op = "processDetectedIngredients"
    /\ Len(request.items) = 3
    /\ \E i, j \in DOMAIN FilterInput :
           /\ i < j
           /\ toLowerCase(FilterInput[i].name)
                  = toLowerCase(FilterInput[j].name)
           /\ FilterInput[i].confidence # FilterInput[j].confidence
    /\ \E i \in DOMAIN FilterInput : IsNonFood(FilterInput[i])
    /\ Len(detectedIngredients[request.session]) = 1
    /\ detectedIngredients[request.session][1].confidence
           = FilterInput[1].confidence

\* the names the latest call passed to normalizeIngredientName
RequestNames ==
    {request.items[i].name : i \in DOMAIN request.items}
        \cup Elems(request.names)

\* C17: normalize is idempotent: normalizing a normalized name changes
\* nothing, for every name an operation is given.
NormalizeIsIdempotent ==
    \A name \in RequestNames :
        normalizeIngredientName(NormalizedName[name]) = NormalizedName[name]

\* --------------------------------------------------------------------------
\* Two sessions
\* --------------------------------------------------------------------------

\* Two sessions, each with an IngredientAgent of its own, stepped with
\* different inputs.
SessionInputs ==
    [s1 |-> [detected |-> <<Item(Chars["2 cups chopped rice"], 80),
                            Item(Chars["egg"], 70)>>,
             manual |-> <<Chars["rice"]>>],
     s2 |-> [detected |-> <<Item(Chars["chopped diced tomato"], 90)>>,
             manual |-> <<Chars["Tomato"], Chars["Tomato"]>>]]

IsolationNext ==
    \E s \in Sessions :
        \/ processDetectedIngredients(s, SessionInputs[s].detected, TRUE)
        \/ addManualIngredients(s, SessionInputs[s].manual)
        \/ removeIngredients(s, SessionInputs[s].manual)
        \/ ClearIngredients(s)
        \/ LoadSavedIngredients(s)

IsolationSpec == SessionInit /\ [][IsolationNext]_vars

\* what a session can read back: its list, its context, and the persisted
\* ingredients (getStoredIngredients(), as a newly constructed agent of the
\* session loads them)
ReadBack(s) ==
    [ingredients |-> detectedIngredients[s],
     context |-> ingredientContext[s],
     persisted |-> getStoredIngredients]

\* C18: an operation on one session never changes what another session can
\* read back.
SessionsAreIsolated ==
    [][\A s \in Sessions :
           s # request'.session => ReadBack(s)' = ReadBack(s)]_vars

\* --------------------------------------------------------------------------
\* Further properties of the recommendation session
\* --------------------------------------------------------------------------

\* C19: after every getRecommendations call that returns, lastQuery equals
\* the ingredients passed and lastRecommendation equals the recipes the call
\* returned, and a refresh that follows it marks as seen exactly the recipes
\* that call returned.
LatestResultIsRecorded ==
    [][/\ QueryStep /\ ret'.kind = "recommendation" =>
              /\ lastQuery' = call'.ingredients.items
              /\ lastRecommendation' = ret'.recipes
       /\ /\ RefreshStep
          /\ call.op = "getRecommendations"
          /\ ret.kind = "recommendation"
          => seenRecipeIds' = seenRecipeIds \cup Ids(ret.recipes)]_vars

\* C20: when the diversity pass substitutes, the slot it replaces holds the
\* lowest-ranked match of its cuisine in the scored list; no match of that
\* cuisine stands below it.
SubstituteReplacesLowestRanked ==
    ret.kind = "recommendation" =>
        \A i \in ChangedSlots :
            \A j \in DOMAIN matchedRecipes :
                CuisineOf(matchedRecipes[j]) = CuisineOf(matchedRecipes[i])
                    => j <= i

\* the cuisines that hold more than 60% of the scored list
DominantCuisines ==
    {c \in Cuisines :
        Cardinality({i \in DOMAIN matchedRecipes :
                        CuisineOf(matchedRecipes[i]) = c}) * 10
            > 6 * Len(matchedRecipes)}

\* C21: every substitute placed by the diversity pass has a cuisine other
\* than the dominant one, an id not in seenRecipeIds, 0.8 times the score of
\* the slot it replaced, no matched ingredients and freshness 1.
SubstituteIsUnseenOtherCuisine ==
    ret.kind = "recommendation" =>
        \A i \in ChangedSlots :
            /\ CuisineOf(ret.recipes[i]) \notin DominantCuisines
            /\ CuisineOf(matchedRecipes[i]) \in DominantCuisines
            /\ ret.recipes[i].recipe \notin seenRecipeIds
            /\ ret.recipes[i].matchScore * 10
                   = matchedRecipes[i].matchScore * 8
            /\ ret.recipes[i].matchedIngredients = <<>>
            /\ ret.recipes[i].freshness = 10

\* a substitute was placed while some recipes were marked seen and the slot
\* it replaced had a positive score
SubstitutePlacedAmongSeen ==
    /\ ret.kind = "recommendation"
    /\ seenRecipeIds # {}
    /\ \E i \in ChangedSlots : matchedRecipes[i].matchScore > 0

\* --------------------------------------------------------------------------
\* Further properties of the scorer
\* --------------------------------------------------------------------------

\* the recipe ingredients of a recipe that an ingredient of the latest call
\* matches, as positions of the recipe's list
MatchedPositions(id) ==
    {k \in DOMAIN RecipeOf(id).ingredients :
        \E i \in DOMAIN call.ingredients.items :
            LET recipeIng == toLowerCase(Chars[RecipeOf(id).ingredients[k]])
                userIng == toLowerCase(Chars[call.ingredients.items[i]])
            IN  includes(recipeIng, userIng) \/ includes(userIng, recipeIng)}

\* (matched / total * 0.6 + contextScore * 0.2 + preferenceScore * 0.1)
\* * freshness for the latest call, in units of 1/ScoreOne
WeightedScore(id) ==
    LET ingredientMatchScore ==
            (Cardinality(MatchedPositions(id)) * One)
                \div Len(RecipeOf(id).ingredients)
        contextScore == ContextScore(RecipeOf(id), call.context)
        preferenceScore ==
            (PreferenceOf(userPreferences, RecipeOf(id).cuisineType) * One)
                \div 10
    IN  (ingredientMatchScore * 6 + contextScore * 2 + preferenceScore)
            * (IF id \in seenRecipeIds THEN 3 ELSE 10) * 10

\* C22: every match scoreRecipes returns carries the weighted score of its
\* recipe, and the list is the 5 highest-scoring candidates in descending
\* order of score.
ScoredListIsTopFiveByWeightedScore ==
    call.op = "scoreRecipes" =>
        /\ \A i \in DOMAIN matchedRecipes :
               /\ matchedRecipes[i].recipe \in Candidates
               /\ matchedRecipes[i].matchScore
                      = WeightedScore(matchedRecipes[i].recipe)
        /\ \A i, j \in DOMAIN matchedRecipes :
               i < j => /\ matchedRecipes[i].matchScore
                              >= matchedRecipes[j].matchScore
                        /\ matchedRecipes[i].recipe # matchedRecipes[j].recipe
        /\ Len(matchedRecipes) = Min(Cardinality(Candidates), 5)
        /\ \A id \in Candidates \ Ids(matchedRecipes) :
               WeightedScore(id)
                   <= matchedRecipes[Len(matchedRecipes)].matchScore

\* six candidates were scored with a context, a preference and a seen recipe,
\* and one of them was cut
SixScoredFiveKept ==
    /\ call.op = "scoreRecipes"
    /\ call.ingredients.items # <<>>
    /\ call.context.defined
    /\ seenRecipeIds # {}
    /\ DOMAIN userPreferences # {}
    /\ Cardinality(Candidates) = 6
    /\ Len(matchedRecipes) = 5

\* --------------------------------------------------------------------------
\* Properties of the returned list
\* --------------------------------------------------------------------------

\* C26: every list returned by getRecommendations or refresh contains each
\* recipe id at most once.
ReturnedIdsAreDistinct ==
    ret.kind = "recommendation" =>
        \A i, j \in DOMAIN ret.recipes :
            i # j => ret.recipes[i].recipe # ret.recipes[j].recipe

\* C27: every list returned by getRecommendations or refresh is ordered by
\* non-increasing matchScore.
ReturnedListIsDescending ==
    ret.kind = "recommendation" =>
        \A i, j \in DOMAIN ret.recipes :
            i < j => ret.recipes[i].matchScore >= ret.recipes[j].matchScore

\* A session that starts after earlier updatePreferences calls: the larger
\* catalog, and the preferences that "liked" and "viewed" ratings of Italian
\* recipes add up to (in tenths): none, eight likes and a view, 25 likes.
SettledPreferences ==
    {[c \in {"Italian"} |-> v] : v \in {0, 17, 50}}

\* the ratings that add up to the preferences
SettledInteractions(prefs) ==
    [c \in Cuisines |->
        [i \in Interactions |->
            CASE i = "liked"  -> PreferenceOf(prefs, c) \div 2
              [] i = "viewed" -> PreferenceOf(prefs, c) % 2
              [] OTHER -> 0]]

SettledInit ==
    /\ catalog = <<Recipe1, Recipe2, Recipe3, Recipe4, Recipe5, Recipe6>>
    /\ seenRecipeIds = {}
    /\ userPreferences \in SettledPreferences
    /\ lastQuery = <<>>
    /\ lastRecommendation = NoRecipes
    /\ matchedRecipes = NoRecipes
    /\ call = Call("new", None, NoContext, "", "")
    /\ ret = Void
    /\ interactions = SettledInteractions(userPreferences)
    /\ IngredientInit

SettledNext ==
    \/ GetRecommendations
    \/ RefreshRecommendations
    \/ ResetSeenRecipes

SettledSpec == SettledInit /\ [][SettledNext]_vars

\* The highest matchScore of a non-empty list.
HighestScore(recipes) ==
    CHOOSE m \in {recipes[i].matchScore : i \in DOMAIN recipes} :
        \A i \in DOMAIN recipes : recipes[i].matchScore <= m

\* The text the three tiers and the empty result call for.
TierText(recipes) ==
    IF Len(recipes) = 0
    THEN "I couldn't find any recipes matching your ingredients"
    ELSE IF HighestScore(recipes) * 10 > 7 * ScoreOne
    THEN "Found great recipes using your ingredients"
    ELSE IF HighestScore(recipes) * 10 > 4 * ScoreOne
    THEN "Here are some recipes that use some of your ingredients"
    ELSE "I found some recipes that use a few of your ingredients"

\* C23: for a query with ingredients, the summary message is the one the
\* highest matchScore among the returned recipes calls for: above 0.7 the
\* "great recipes" message, above 0.4 the "some of your ingredients"
\* message, otherwise the "a few of your ingredients" message, and with no
\* result the "couldn't find any recipes" message.
MessageFollowsHighestScore ==
    (ret.kind = "recommendation" /\ lastQuery # <<>>
        /\ call.op \in {"getRecommendations", "refreshRecommendations"})
        => ret.message.text = TierText(ret.recipes)

\* --------------------------------------------------------------------------
\* The freshness penalty
\* --------------------------------------------------------------------------

\* the score of a recipe for the latest query, had it not been seen
FreshScore(id) ==
    ScoreOf(RecipeOf(id), lastQuery, call.context, {},
            userPreferences).matchScore

\* C28: the freshness penalty never raises a score: a seen recipe's
\* matchScore is at most the matchScore the same query, context and
\* preferences give it when it has not been seen.
PenaltyNeverRaisesScore ==
    call.op \in {"getRecommendations", "refreshRecommendations"}
        => \A i \in DOMAIN matchedRecipes :
               matchedRecipes[i].recipe \in seenRecipeIds
                   => matchedRecipes[i].matchScore
                          <= FreshScore(matchedRecipes[i].recipe)

\* --------------------------------------------------------------------------
\* Refresh and the context
\* --------------------------------------------------------------------------

\* the score of a recipe for the latest query with a contextScore of 0
ContextFreeScore(id) ==
    FinalScore(
        IngredientMatchScore(Len(MatchedOf[id][lastQuery]),
                             Len(RecipeOf(id).ingredients)),
        0,
        (PreferenceOf(userPreferences, RecipeOf(id).cuisineType) * One) \div 10,
        Freshness(seenRecipeIds, id))

ScoredWithoutContext ==
    ret.kind = "recommendation" =>
        /\ ret.contextMessage = undefined
        /\ \A i \in DOMAIN matchedRecipes :
               matchedRecipes[i].matchScore
                   = ContextFreeScore(matchedRecipes[i].recipe)

\* C29: whatever the call before it was given, refreshRecommendations()
\* scores every match with a contextScore of 0 and returns no
\* contextMessage.
RefreshScoresWithoutContext ==
    [][RefreshStep => ScoredWithoutContext']_vars

\* a refresh of the query that is made with a context has returned matches
\* that the context would have scored higher
RefreshedContextQuery ==
    /\ call.op = "refreshRecommendations"
    /\ ret.kind = "recommendation"
    /\ lastQuery = RatingIngredients
    /\ \E i \in DOMAIN matchedRecipes :
           ContextScore(RecipeOf(matchedRecipes[i].recipe), MorningContext) > 0
    /\ generateContextMessage(ret.recipes, MorningContext) # undefined

\* --------------------------------------------------------------------------
\* The context analysis on its own
\* --------------------------------------------------------------------------

\* the ingredient lists the analysis runs over: every selection of
\* AnalysisNames, in the order of AnalysisNames
AnalysisLists ==
    {LET chosen == SelectSeq(<<1, 2, 3, 4, 5, 6, 7, 8>>, LAMBDA i : i \in picked)
     IN  [k \in DOMAIN chosen |-> ManualIngredient(AnalysisNames[chosen[k]])] :
         picked \in SUBSET (DOMAIN AnalysisNames)}

\* A session "s1" that holds a list of ingredients, saved, not yet analysed.
AnalysisInit ==
    /\ catalog = RECIPE_DATABASE
    /\ seenRecipeIds = {}
    /\ userPreferences = [c \in {} |-> 0]
    /\ lastQuery = <<>>
    /\ lastRecommendation = NoRecipes
    /\ matchedRecipes = NoRecipes
    /\ call = Call("new", None, NoContext, "", "")
    /\ ret = Void
    /\ interactions = [c \in Cuisines |-> [i \in Interactions |-> 0]]
    /\ \E ingredients \in AnalysisLists :
           /\ detectedIngredients =
                  [s \in Sessions |-> IF s = "s1" THEN ingredients ELSE <<>>]
           /\ storage = Stored(ingredients)
    /\ savedIngredients = [s \in Sessions |-> <<>>]
    /\ ingredientContext = [s \in Sessions |-> EmptyContext]
    /\ loading = {}
    /\ request = Request("", "new", <<>>, <<>>, FALSE)
    /\ storageCalls = [c \in CallIds |-> NotCalled]

\* this.analyzeIngredientContext()
AnalyzeIngredientContext(s) ==
    /\ \E hours \in Hours :
           ingredientContext' =
               [ingredientContext EXCEPT
                   ![s] = analyzeIngredientContext(detectedIngredients[s],
                                                   hours)]
    /\ request' = Request(s, "analyzeIngredientContext", <<>>, <<>>, TRUE)
    /\ UNCHANGED <<recipeVars, detectedIngredients, savedIngredients,
                   loading, storage, storageCalls>>

\* the table `associations` of inferMissingIngredients
Associations ==
    <<[key |-> <<"t","o","m","a","t","o">>,
       words |-> <<<<"g","a","r","l","i","c">>, <<"o","n","i","o","n">>,
                   <<"b","a","s","i","l">>,
                   <<"o","l","i","v","e"," ","o","i","l">>>>],
      [key |-> <<"p","a","s","t","a">>,
       words |-> <<<<"g","a","r","l","i","c">>, <<"t","o","m","a","t","o">>,
                   <<"o","l","i","v","e"," ","o","i","l">>,
                   <<"p","a","r","m","e","s","a","n">>>>],
      [key |-> <<"c","h","i","c","k","e","n">>,
       words |-> <<<<"g","a","r","l","i","c">>, <<"o","n","i","o","n">>,
                   <<"s","a","l","t">>, <<"p","e","p","p","e","r">>,
                   <<"o","l","i","v","e"," ","o","i","l">>>>],
      [key |-> <<"r","i","c","e">>,
       words |-> <<<<"s","a","l","t">>, <<"b","u","t","t","e","r">>,
                   <<"o","n","i","o","n">>>>],
      [key |-> <<"b","e","e","f">>,
       words |-> <<<<"g","a","r","l","i","c">>, <<"o","n","i","o","n">>,
                   <<"s","a","l","t">>, <<"p","e","p","p","e","r">>>>],
      [key |-> <<"f","l","o","u","r">>,
       words |-> <<<<"s","u","g","a","r">>, <<"e","g","g","s">>,
                   <<"b","u","t","t","e","r">>,
                   <<"b","a","k","i","n","g"," ","p","o","w","d","e","r">>,
                   <<"s","a","l","t">>>>],
      [key |-> <<"p","o","t","a","t","o">>,
       words |-> <<<<"b","u","t","t","e","r">>, <<"s","a","l","t">>,
                   <<"p","e","p","p","e","r">>, <<"g","a","r","l","i","c">>>>],
      [key |-> <<"c","h","e","e","s","e">>,
       words |-> <<<<"g","a","r","l","i","c">>, <<"b","u","t","t","e","r">>,
                   <<"p","e","p","p","e","r">>>>],
      [key |-> <<"m","i","l","k">>,
       words |-> <<<<"s","u","g","a","r">>, <<"v","a","n","i","l","l","a">>,
                   <<"e","g","g","s">>>>],
      [key |-> <<"f","i","s","h">>,
       words |-> <<<<"l","e","m","o","n">>, <<"s","a","l","t">>,
                   <<"p","e","p","p","e","r">>,
                   <<"o","l","i","v","e"," ","o","i","l">>,
                   <<"g","a","r","l","i","c">>>>]>>

\* associations[name] || []
AssociatedIngredients(name) ==
    IF \E k \in DOMAIN Associations : Associations[k].key = name
    THEN Associations[CHOOSE k \in DOMAIN Associations :
                         Associations[k].key = name].words
    ELSE <<>>

\* ['basil', 'parmesan', 'olive oil', 'garlic']
ItalianItems ==
    <<<<"b","a","s","i","l">>, <<"p","a","r","m","e","s","a","n">>,
      <<"o","l","i","v","e"," ","o","i","l">>, <<"g","a","r","l","i","c">>>>

\* ['soy sauce', 'ginger', 'sesame oil', 'green onion']
AsianItems ==
    <<<<"s","o","y"," ","s","a","u","c","e">>, <<"g","i","n","g","e","r">>,
      <<"s","e","s","a","m","e"," ","o","i","l">>,
      <<"g","r","e","e","n"," ","o","n","i","o","n">>>>

\* push each item that is neither a current ingredient nor suggested yet
RECURSIVE PushNew(_, _, _)
PushNew(suggestedIngredients, items, currentIngredients) ==
    IF items = <<>> THEN suggestedIngredients
    ELSE PushNew(
             IF Head(items) \notin Elems(currentIngredients)
                    /\ Head(items) \notin Elems(suggestedIngredients)
             THEN Append(suggestedIngredients, Head(items))
             ELSE suggestedIngredients,
             Tail(items), currentIngredients)

\* the loop over this.detectedIngredients
RECURSIVE PushAssociated(_, _, _)
PushAssociated(suggestedIngredients, names, currentIngredients) ==
    IF names = <<>> THEN suggestedIngredients
    ELSE PushAssociated(
             PushNew(suggestedIngredients, AssociatedIngredients(Head(names)),
                     currentIngredients),
             Tail(names), currentIngredients)

\* if (possibleCuisines.includes('Italian')) ... else if (...'Asian') ...
PushCuisineItems(suggestedIngredients, possibleCuisines, currentIngredients) ==
    IF "Italian" \in Elems(possibleCuisines)
    THEN PushNew(suggestedIngredients, ItalianItems, currentIngredients)
    ELSE IF "Asian" \in Elems(possibleCuisines)
    THEN PushNew(suggestedIngredients, AsianItems, currentIngredients)
    ELSE suggestedIngredients

\* Array.prototype.slice(0, n)
Slice(list, n) == SubSeq(list, 1, IF Len(list) < n THEN Len(list) ELSE n)

inferMissingIngredients(ingredients, context) ==
    LET currentIngredients == IngredientNames(ingredients)
    IN  Slice(PushCuisineItems(
                  PushAssociated(<<>>, currentIngredients, currentIngredients),
                  context.possibleCuisines, currentIngredients),
              5)

\* what inferMissingIngredients() returns
Suggestions(names) == [kind |-> "suggestions", names |-> names]

InferMissingIngredients(s) ==
    /\ ret' = Suggestions(inferMissingIngredients(detectedIngredients[s],
                                                  ingredientContext[s]))
    /\ request' = Request(s, "inferMissingIngredients", <<>>, <<>>, FALSE)
    /\ UNCHANGED <<catalog, seenRecipeIds, userPreferences, lastQuery,
                   lastRecommendation, matchedRecipes, call, interactions,
                   detectedIngredients, savedIngredients, ingredientContext,
                   loading, storage, storageCalls>>

AnalysisNext ==
    \/ AnalyzeIngredientContext("s1")
    \/ InferMissingIngredients("s1")

AnalysisSpec == AnalysisInit /\ [][AnalysisNext]_vars

\* the signature words of a table entry that match a name of the session's
\* list: containment in either direction, ignoring case
MatchedWords(entry) ==
    {w \in Elems(entry.words) :
        \E i \in DOMAIN detectedIngredients["s1"] :
            LET name == toLowerCase(detectedIngredients["s1"][i].name)
            IN  includes(name, w) \/ includes(w, name)}

\* the list holds exactly soy sauce, ginger, rice and sesame oil
SoyGingerRiceSesame ==
    {detectedIngredients["s1"][i].name :
        i \in DOMAIN detectedIngredients["s1"]}
        = {AnalysisNames[1], AnalysisNames[2], AnalysisNames[3],
           AnalysisNames[4]}

\* C24: after the analysis a cuisine is in possibleCuisines exactly when at
\* least one of its signature ingredients matches an ingredient name, and a
\* technique is in cookingTechniques exactly when at least 2 of its
\* signature ingredients match; soy sauce, ginger, rice and sesame oil give
\* Asian and Stir-frying.
CuisinesAndTechniquesByMatches ==
    request.op = "analyzeIngredientContext" =>
        /\ \A k \in DOMAIN CuisineSignatures :
               CuisineSignatures[k].key
                       \in Elems(ingredientContext["s1"].possibleCuisines)
                   <=> Cardinality(MatchedWords(CuisineSignatures[k])) >= 1
        /\ \A k \in DOMAIN TechniqueSuggestions :
               TechniqueSuggestions[k].key
                       \in Elems(ingredientContext["s1"].cookingTechniques)
                   <=> Cardinality(MatchedWords(TechniqueSuggestions[k])) >= 2
        /\ SoyGingerRiceSesame =>
               /\ ingredientContext["s1"].possibleCuisines = <<"Asian">>
               /\ ingredientContext["s1"].cookingTechniques = <<"Stir-frying">>

\* the analysis of a list has a technique with exactly 2 matches in and a
\* technique with exactly 1 match out
TechniqueAtTheThreshold ==
    /\ request.op = "analyzeIngredientContext"
    /\ \E k \in DOMAIN TechniqueSuggestions :
           /\ Cardinality(MatchedWords(TechniqueSuggestions[k])) = 2
           /\ TechniqueSuggestions[k].key
                  \in Elems(ingredientContext["s1"].cookingTechniques)
    /\ \E k \in DOMAIN TechniqueSuggestions :
           /\ Cardinality(MatchedWords(TechniqueSuggestions[k])) = 1
           /\ TechniqueSuggestions[k].key
                  \notin Elems(ingredientContext["s1"].cookingTechniques)
    /\ ingredientContext["s1"].possibleCuisines # <<>>

\* C25: whenever the context contains "Asian", also next to "Italian", each
\* of soy sauce, ginger, sesame oil and green onion that is not a current
\* ingredient is in the suggestions, unless the list was cut at 5.
AsianItemsAreSuggested ==
    (/\ request.op = "inferMissingIngredients"
     /\ "Asian" \in Elems(ingredientContext["s1"].possibleCuisines)
     /\ Len(ret.names) < 5)
        => \A k \in DOMAIN AsianItems :
               AsianItems[k]
                   \in Elems(ret.names)
                       \cup Elems(IngredientNames(detectedIngredients["s1"]))

\* --------------------------------------------------------------------------
\* ingredientStorage.ts: calls that overlap
\* --------------------------------------------------------------------------

\* A StoredIngredient.  JSON.stringify and JSON.parse give back a record of
\* the same name; dateAdded plays no part.
StoredIngredient(name) == [name |-> name]

\* the names the calls are made with
StorageNames == {Chars["rice"], Chars["egg"], Chars["Tomato"]}

\* The storage holds nothing, or a list saved before; no call is under way.
StorageInit ==
    /\ catalog = RECIPE_DATABASE
    /\ seenRecipeIds = {}
    /\ userPreferences = [c \in {} |-> 0]
    /\ lastQuery = <<>>
    /\ lastRecommendation = NoRecipes
    /\ matchedRecipes = NoRecipes
    /\ call = Call("new", None, NoContext, "", "")
    /\ ret = Void
    /\ interactions = [c \in Cuisines |-> [i \in Interactions |-> 0]]
    /\ detectedIngredients = [s \in Sessions |-> <<>>]
    /\ savedIngredients = [s \in Sessions |-> <<>>]
    /\ ingredientContext = [s \in Sessions |-> EmptyContext]
    /\ loading = {}
    /\ storage \in {null, Stored(<<StoredIngredient(Chars["rice"])>>)}
    /\ request = Request("", "new", <<>>, <<>>, FALSE)
    /\ storageCalls = [c \in CallIds |-> NotCalled]

StorageStep(c, next) ==
    /\ storageCalls' = [storageCalls EXCEPT ![c] = next]
    /\ UNCHANGED <<recipeVars, detectedIngredients, savedIngredients,
                   ingredientContext, loading, request>>

\* addIngredientToStorage(ingredient) or removeIngredientFromStorage(name)
\* is called: it runs up to `await AsyncStorage.getItem(...)`.
CallStorage(c) ==
    /\ storageCalls[c].pc = "idle"
    /\ \E op \in {"add", "remove"}, name \in StorageNames :
           StorageStep(c, [storageCalls[c] EXCEPT
                              !.pc = "getItem", !.op = op, !.name = name])
    /\ UNCHANGED storage

\* [...existing, ingredient], or existing.filter(ing => ...)
Updated(op, name, existing) ==
    IF op = "add" THEN Append(existing, StoredIngredient(name))
    ELSE SelectSeq(existing,
             LAMBDA ing : toLowerCase(ing.name) # toLowerCase(name))

\* getItem resolves: getStoredIngredients returns the list under the key
\* ([] when there is none), `updated` is computed from it and
\* saveIngredients runs up to `await AsyncStorage.setItem(...)`.
GetItemResolves(c) ==
    /\ storageCalls[c].pc = "getItem"
    /\ StorageStep(c, [storageCalls[c] EXCEPT
                          !.pc = "setItem", !.read = "value",
                          !.updated = Updated(storageCalls[c].op,
                                              storageCalls[c].name,
                                              getStoredIngredients)])
    /\ UNCHANGED storage

\* getItem rejects: getStoredIngredients catches and returns [].
GetItemRejects(c) ==
    /\ storageCalls[c].pc = "getItem"
    /\ StorageStep(c, [storageCalls[c] EXCEPT
                          !.pc = "setItem", !.read = "error",
                          !.updated = Updated(storageCalls[c].op,
                                              storageCalls[c].name, <<>>)])
    /\ UNCHANGED storage

\* setItem resolves: the list is under the key, the call returns true.
SetItemResolves(c) ==
    /\ storageCalls[c].pc = "setItem"
    /\ storage' = Stored(storageCalls[c].updated)
    /\ StorageStep(c, [storageCalls[c] EXCEPT
                          !.pc = "done", !.result = "true"])

\* setItem rejects: saveIngredients catches and returns false.
SetItemRejects(c) ==
    /\ storageCalls[c].pc = "setItem"
    /\ StorageStep(c, [storageCalls[c] EXCEPT
                          !.pc = "done", !.result = "false"])
    /\ UNCHANGED storage

StorageNext ==
    \E c \in CallIds :
        \/ CallStorage(c)
        \/ GetItemResolves(c)
        \/ GetItemRejects(c)
        \/ SetItemResolves(c)
        \/ SetItemRejects(c)

StorageSpec == StorageInit /\ [][StorageNext]_vars

\* the names of the stored list, lower-cased
StoredNames ==
    {toLowerCase(getStoredIngredients[i].name) :
        i \in DOMAIN getStoredIngredients}

\* both calls read the storage and returned true
BothReturnedTrue ==
    \A c \in CallIds :
        /\ storageCalls[c].pc = "done"
        /\ storageCalls[c].read = "value"
        /\ storageCalls[c].result = "true"

\* C30: when two calls of addIngredientToStorage, or an add and a
\* removeIngredientFromStorage of another name, have both returned true,
\* the stored list reflects both: it holds each added ingredient and none
\* of a removed name.
NoStoredUpdateIsLost ==
    (/\ BothReturnedTrue
     /\ toLowerCase(storageCalls["a"].name) # toLowerCase(storageCalls["b"].name)
     /\ \E c \in CallIds : storageCalls[c].op = "add")
        => \A c \in CallIds :
               IF storageCalls[c].op = "add"
               THEN toLowerCase(storageCalls[c].name) \in StoredNames
               ELSE toLowerCase(storageCalls[c].name) \notin StoredNames

====
